---- MODULE Spec2Model ----
(***************************************************************************)
(* Model of the two request handlers of the RSS / sitemap extractor:       *)
(*   src/app/api/extract/route.ts  (feed handler, POST)                    *)
(*   src/app/api/sitemap/route.ts  (sitemap handler, POST)                 *)
(*                                                                         *)
(* Text.  A JavaScript string is modelled as a sequence of tokens; a token *)
(* is an indivisible chunk of characters ("<loc>", "http", "://", " ").    *)
(* String operations are computed on the token sequence: concatenation is  *)
(* \o, startsWith compares a prefix, trim strips white-space tokens.       *)
(* A response body is a record [head, blocks]: head is the text in front   *)
(* of the first block (prolog, root tag), blocks the <url>, <sitemap>,     *)
(* <item>, <entry> and <link ...> elements in document order, each with    *)
(* the token text between its delimiters.  The block-level regular         *)
(* expressions of the parsers iterate over blocks; the field-level regular *)
(* expressions are computed on the tokens of a block.                      *)
(***************************************************************************)
EXTENDS Integers, Sequences, FiniteSets, TLC

VARIABLES
  handler,            \* "feed" | "sitemap": which POST serves the request
  req,                \* the url member of the request body
  web,                \* the network: URL -> what a fetch of it returns
  pc,                 \* position of the handler (the await it is suspended at)
  fetchLog,           \* every fetch issued so far, in order of issue
  candidates,         \* uniqueCandidates / candidateUrls
  idx,                \* index of the candidate whose fetch is in flight
  allUrls,            \* sitemap: allUrls
  discoveredSitemaps, \* sitemap: discoveredSitemaps
  primarySitemapUrl,  \* sitemap: primarySitemapUrl
  childSitemaps,      \* sitemap: childSitemaps of the index being expanded
  childPending,       \* sitemap: indices of child tasks not yet settled
  childResults,       \* sitemap: childResults, one slot per child task
  feedItems,          \* feed: feedItems
  workingFeedUrl,     \* feed: workingFeedUrl
  validFeeds,         \* feed: validFeeds
  parsedUrl,          \* the parsed seed URL
  mergeLog,           \* sitemap: allUrls.length seen before each child merge
  response,           \* the NextResponse returned, or NoResponse
  keywordData,        \* SitemapExtractor: keywordData.sorted
  memoLog             \* the runs of the keywordData memo: input urls and output

vars == <<handler, req, web, pc, fetchLog, candidates, idx, allUrls,
          discoveredSitemaps, primarySitemapUrl, childSitemaps, childPending,
          childResults, feedItems, workingFeedUrl, validFeeds, parsedUrl,
          mergeLog, response, keywordData, memoLog>>

----------------------------------------------------------------------------
(* String helpers *)

WS == {" ", "\n"}

MinOf(S) == CHOOSE x \in S : \A y \in S : x <= y

MaxOf(S) == CHOOSE x \in S : \A y \in S : x >= y

IsBlank(t) == \A i \in 1..Len(t) : t[i] \in WS

trimStart(t) ==
  IF IsBlank(t) THEN <<>>
  ELSE SubSeq(t, MinOf({i \in 1..Len(t) : t[i] \notin WS}), Len(t))

trimEnd(t) ==
  IF IsBlank(t) THEN <<>>
  ELSE SubSeq(t, 1, MaxOf({i \in 1..Len(t) : t[i] \notin WS}))

trim(t) == trimEnd(trimStart(t))

startsWith(t, p) == Len(t) >= Len(p) /\ SubSeq(t, 1, Len(p)) = p

endsWith(t, p) ==
  Len(t) >= Len(p) /\ SubSeq(t, Len(t) - Len(p) + 1, Len(t)) = p

includes(t, tok) == \E i \in 1..Len(t) : t[i] = tok

\* The empty string is falsy.
Truthy(t) == Len(t) > 0

----------------------------------------------------------------------------
(* new URL(...) on token text.  The input alphabet holds the tokens "http", *)
(* "s", "://", host labels, "/", path words and white space; a URL is       *)
(* scheme "://" host path.  The parser strips surrounding white space,      *)
(* fails without a scheme followed by "://", fails on an empty host and on  *)
(* a host holding a forbidden code point (white space), and gives an empty  *)
(* path the pathname "/".                                                   *)
(* Definitions take the values they share as parameters (F(x) is            *)
(* FWith(x, G(x))) so that each is computed once.                           *)

HostTokens == {"a.com", "b.org", "bin.org", "http", "s"}

InvalidUrl == [ok |-> FALSE, href |-> <<>>, origin |-> <<>>, pathname |-> <<>>]

SchemeOf(t) ==
  IF startsWith(t, <<"http", "s", "://">>) THEN <<"http", "s", "://">>
  ELSE IF startsWith(t, <<"http", "://">>) THEN <<"http", "://">>
  ELSE <<>>

\* the last index of the host in the text after the scheme
HostEnd(rest) ==
  IF \A i \in 1..Len(rest) : rest[i] # "/" THEN Len(rest)
  ELSE MinOf({i \in 1..Len(rest) : rest[i] = "/"}) - 1

MakeUrl(scheme, host, path) ==
  IF scheme = <<>> \/ host = <<>>
     \/ (\E i \in 1..Len(host) : host[i] \notin HostTokens)
  THEN InvalidUrl
  ELSE [ok |-> TRUE,
        href |-> scheme \o host \o (IF path = <<>> THEN <<"/">> ELSE path),
        origin |-> scheme \o host,
        pathname |-> IF path = <<>> THEN <<"/">> ELSE path]

SplitHost(scheme, rest, hostEnd) ==
  MakeUrl(scheme, SubSeq(rest, 1, hostEnd), SubSeq(rest, hostEnd + 1, Len(rest)))

ParseAfter(scheme, rest) == SplitHost(scheme, rest, HostEnd(rest))

ParseScheme(t, scheme) == ParseAfter(scheme, SubSeq(t, Len(scheme) + 1, Len(t)))

ParseTrimmed(t) == ParseScheme(t, SchemeOf(t))

ParseUrl(input) == ParseTrimmed(trim(input))

\* the directory of a pathname: up to its last "/"
DirOf(pathname) ==
  SubSeq(pathname, 1, MaxOf({i \in 1..Len(pathname) : pathname[i] = "/"}))

\* new URL(href, base): an absolute href stands alone, a path-absolute one
\* replaces the base's path, any other replaces the base's last segment.
ResolveIn(h, b) ==
  IF SchemeOf(h) # <<>> THEN ParseTrimmed(h)
  ELSE IF ~b.ok \/ includes(h, "://") THEN InvalidUrl
  ELSE ParseTrimmed(b.origin
                    \o (IF h # <<>> /\ h[1] = "/" THEN <<>> ELSE DirOf(b.pathname))
                    \o h)

ResolveUrl(href, base) == ResolveIn(trim(href), ParseUrl(base))

\* url.startsWith("http") ? url : `https://${url}`
NormalizeSeed(url) ==
  IF startsWith(url, <<"http">>) THEN url ELSE <<"http", "s", "://">> \o url

----------------------------------------------------------------------------
(* Field-level regular expressions on the tokens of a block.               *)

CDATA_OPEN == "<![CDATA["

CDATA_CLOSE == "]]>"

NoMatch == [found |-> FALSE, val |-> <<>>]

Match(val) == [found |-> TRUE, val |-> val]

\* /<tag>(?:<!\[CDATA\[)?([\s\S]*?)(?:\]\]>)?<\/tag>/ : the first opening
\* tag that has a closing tag after it, an optional CDATA opener, the
\* shortest capture, an optional CDATA closer, the closing tag.
Opens(content, open, close) ==
  {p \in 1..Len(content) :
     /\ content[p] = open
     /\ \E q \in (p + 1)..Len(content) : content[q] = close}

\* the capture from start up to the closing tag at q
Capture(content, start, q) ==
  Match(SubSeq(content, start,
               IF q - 1 >= start /\ content[q - 1] = CDATA_CLOSE
               THEN q - 2 ELSE q - 1))

CaptureFrom(content, close, start) ==
  Capture(content, start,
          MinOf({i \in start..Len(content) : content[i] = close}))

CaptureAfter(content, close, p) ==
  CaptureFrom(content, close,
              IF content[p + 1] = CDATA_OPEN THEN p + 2 ELSE p + 1)

FieldIn(content, close, opens) ==
  IF opens = {} THEN NoMatch ELSE CaptureAfter(content, close, MinOf(opens))

FieldMatch(content, open, close) ==
  FieldIn(content, close, Opens(content, open, close))

QUOTE == "\""

\* The quoted value that follows the attribute token at position q, when it
\* is non-empty and closed by a quote: ["']([^"']+)["'].  The tokens "href="
\* and "type=" hold the attribute name, the equals sign and the opening quote.
HasValue(content, q) ==
  /\ q + 1 <= Len(content) /\ content[q + 1] # QUOTE
  /\ \E e \in (q + 2)..Len(content) : content[e] = QUOTE

ValueAt(content, q) ==
  SubSeq(content, q + 1,
         MinOf({i \in (q + 2)..Len(content) : content[i] = QUOTE}) - 1)

HrefPositions(content) ==
  {q \in 1..Len(content) : content[q] = "href=" /\ HasValue(content, q)}

FirstValue(content, hits) ==
  IF hits = {} THEN NoMatch ELSE Match(ValueAt(content, MinOf(hits)))

LastValue(content, hits) ==
  IF hits = {} THEN NoMatch ELSE Match(ValueAt(content, MaxOf(hits)))

\* /href=["']([^"']+)["']/ : the first href= with a non-empty quoted value.
HrefMatch(content) == FirstValue(content, HrefPositions(content))

\* the href= that a <link at position p reaches over at least one character
\* other than ">"
Reach(content, p) ==
  {q \in (p + 2)..Len(content) :
     /\ content[q] = "href=" /\ HasValue(content, q)
     /\ \A k \in (p + 1)..(q - 1) : content[k] # ">"}

Links(content) ==
  {p \in 1..Len(content) : content[p] = "<link" /\ Reach(content, p) # {}}

LinkHrefIn(content, links) ==
  IF links = {} THEN NoMatch
  ELSE LastValue(content, Reach(content, MinOf(links)))

\* /<link[^>]+href=["']([^"']+)["']/ : the first <link that reaches such an
\* href=; [^>]+ is greedy, so of several href= in reach the last is taken.
LinkHrefMatch(content) == LinkHrefIn(content, Links(content))

\* The blocks a block-level regular expression finds, in document order:
\* /<url>([\s\S]*?)<\/url>/gi and its like for <sitemap>, <item>, <entry>;
\* the <link ...> tags of a page.
IsUrlBlock(b) == b.tag = "url"

IsSitemapBlock(b) == b.tag = "sitemap"

IsItemBlock(b) == b.tag = "item"

IsEntryBlock(b) == b.tag = "entry"

IsLinkBlock(b) == b.tag = "link"

\* The text of a body up to the opening tag of its first block.
Opening(body) ==
  body.head \o (IF body.blocks = <<>> THEN <<>>
                ELSE <<"<" \o body.blocks[1].tag>>)

----------------------------------------------------------------------------
(* The parsers *)

Loc(content) == FieldMatch(content, "<loc>", "</loc>")

FieldOr(m, dflt) == IF m.found THEN trim(m.val) ELSE dflt

SitemapUrl(content) ==
  [loc        |-> trim(Loc(content).val),
   lastmod    |-> FieldOr(FieldMatch(content, "<lastmod>", "</lastmod>"), <<>>),
   changefreq |-> FieldOr(FieldMatch(content, "<changefreq>", "</changefreq>"), <<>>),
   priority   |-> FieldOr(FieldMatch(content, "<priority>", "</priority>"), <<>>)]

\* if (locMatch) inside the block loops
SitemapWithLoc(b) == IsSitemapBlock(b) /\ Loc(b.content).found

UrlWithLoc(b) == IsUrlBlock(b) /\ Loc(b.content).found

\* xml.includes("<sitemapindex") || xml.includes("<sitemap>")
IsSitemapIndex(xml) ==
  \/ includes(xml.head, "<sitemapindex")
  \/ \E i \in 1..Len(xml.blocks) : IsSitemapBlock(xml.blocks[i])

ParsedSitemap(isSitemapIndex, sm, ub) ==
  [urls |-> [i \in 1..Len(ub) |-> SitemapUrl(ub[i].content)],
   sitemapIndexUrls |->
     IF isSitemapIndex
     THEN [i \in 1..Len(sm) |-> trim(Loc(sm[i].content).val)]
     ELSE <<>>]

parseSitemapXml(xml) ==
  ParsedSitemap(IsSitemapIndex(xml), SelectSeq(xml.blocks, SitemapWithLoc),
                SelectSeq(xml.blocks, UrlWithLoc))

\* linkMatch = <link>text</link> || <link ... href="...">
RssLinkOf(content, m1) ==
  IF m1.found THEN trim(m1.val) ELSE FieldOr(LinkHrefMatch(content), <<>>)

\* One <item>: the link is <link>text</link>, else the href of a <link ...>.
RssLink(content) == RssLinkOf(content, FieldMatch(content, "<link>", "</link>"))

Item(content, link, dateMatch) ==
  [title   |-> FieldOr(FieldMatch(content, "<title>", "</title>"), link),
   link    |-> link,
   pubDate |-> FieldOr(dateMatch, <<>>)]

RssItem(content) ==
  Item(content, RssLink(content), FieldMatch(content, "<pubDate>", "</pubDate>"))

AtomLink(content) == FieldOr(LinkHrefMatch(content), <<>>)

\* publishedMatch ? published : updatedMatch ? updated : ""
AtomDate(publishedMatch, updatedMatch) ==
  IF publishedMatch.found THEN publishedMatch ELSE updatedMatch

AtomEntry(content) ==
  Item(content, AtomLink(content),
       AtomDate(FieldMatch(content, "<published>", "</published>"),
                FieldMatch(content, "<updated>", "</updated>")))

\* if (link) inside the block loops
ItemWithLink(b) == IsItemBlock(b) /\ Truthy(RssLink(b.content))

EntryWithLink(b) == IsEntryBlock(b) /\ Truthy(AtomLink(b.content))

\* the Atom pass runs if (items.length === 0)
ItemsOrEntries(ib, eb) ==
  IF Len(ib) = 0
  THEN [i \in 1..Len(eb) |-> AtomEntry(eb[i].content)]
  ELSE [i \in 1..Len(ib) |-> RssItem(ib[i].content)]

parseRssFeed(xml) ==
  ItemsOrEntries(SelectSeq(xml.blocks, ItemWithLink),
                 SelectSeq(xml.blocks, EntryWithLink))

IsNew(e) == e.new

Xs(kept) == [i \in 1..Len(kept) |-> kept[i].x]

\* [...new Set(xs)]: the first occurrence of each element, in order.
Unique(xs) ==
  Xs(SelectSeq([i \in 1..Len(xs) |->
                  [x |-> xs[i], new |-> ~ \E j \in 1..(i - 1) : xs[j] = xs[i]]],
               IsNew))

FeedTypes ==
  {"application/rss+xml", "application/atom+xml", "application/xml", "text/xml"}

\* /<link[^>]+type=["'](...)["'][^>]*>/ on the text of one <link ...> tag,
\* from "<link" to its ">": a type= with one of the feed types, at least one
\* character after "<link".
IsFeedLink(content) ==
  /\ Len(content) > 0 /\ content[1] = "<link"
  /\ \E q \in 3..(Len(content) - 2) :
       /\ content[q] = "type="
       /\ content[q + 1] \in FeedTypes
       /\ content[q + 2] = QUOTE

commonPaths ==
  << <<"/", "feed">>, <<"/", "feed", "/">>, <<"/", "rss">>,
     <<"/", "rss", ".xml">>, <<"/", "atom", ".xml">>, <<"/", "feed", ".xml">>,
     <<"/", "index", ".xml">>, <<"/", "rss", "/", "feed">>,
     <<"/", "blog", "/", "feed">>, <<"/", "blog", "/", "rss">> >>

\* a <link ...> tag the link regular expression matches, with a href
FeedLinkWithHref(b) ==
  IsLinkBlock(b) /\ IsFeedLink(b.content) /\ HrefMatch(b.content).found

IsOk(u) == u.ok

HrefsOf(resolved) == [i \in 1..Len(resolved) |-> resolved[i].href]

\* new URL(hrefMatch[1], baseUrl).href of every matched tag, failures skipped
Declared(lb, base) ==
  HrefsOf(SelectSeq([i \in 1..Len(lb) |->
                      ResolveIn(trim(HrefMatch(lb[i].content).val), base)],
                   IsOk))

\* new URL(p, base.origin).href for p of commonPaths
Guessed(base) ==
  IF base.ok
  THEN [i \in 1..Len(commonPaths) |->
          ParseTrimmed(base.origin \o commonPaths[i]).href]
  ELSE <<>>

ExtractWith(html, base) ==
  Unique(Declared(SelectSeq(html.blocks, FeedLinkWithHref), base)
         \o Guessed(base))

extractRssUrls(html, baseUrl) == ExtractWith(html, ParseUrl(baseUrl))

----------------------------------------------------------------------------
(* The network.  web maps the href of a URL to what a fetch of it returns: *)
(* status "ok" (2xx), "http" (another status), "neterr" (the fetch          *)
(* rejects) or "timeout" (AbortSignal.timeout aborts it), the status code   *)
(* or error message, and the body.  A URL outside the domain of web, or    *)
(* one fetch cannot parse, rejects.                                        *)

EmptyBody == [head |-> <<>>, blocks |-> <<>>]

NetErr == [status |-> "neterr", code |-> "fetch failed", body |-> EmptyBody]

FetchParsed(u) == IF u.ok /\ u.href \in DOMAIN web THEN web[u.href] ELSE NetErr

Fetch(url) == FetchParsed(ParseUrl(url))

Null == [ok |-> FALSE, text |-> EmptyBody]

\* startsWith("<?xml") || startsWith("<urlset") || startsWith("<sitemapindex")
StartsLikeSitemap(trimmed) ==
  \/ startsWith(trimmed, <<"<?xml">>)
  \/ startsWith(trimmed, <<"<urlset">>)
  \/ startsWith(trimmed, <<"<sitemapindex">>)

LooksLikeSitemap(text) == StartsLikeSitemap(trimStart(Opening(text)))

\* fetchXml without the test on how the body starts.
XmlOfAny(r) ==
  IF r.status # "ok" THEN Null ELSE [ok |-> TRUE, text |-> r.body]

XmlOf(r) ==
  IF r.status # "ok" THEN Null
  ELSE IF LooksLikeSitemap(r.body) THEN [ok |-> TRUE, text |-> r.body]
  ELSE Null

fetchXml(url) == XmlOf(Fetch(url))

----------------------------------------------------------------------------
(* Sitemap handler: candidate list *)

MAX_CHILD_SITEMAPS == 20

MAX_URLS == 5000

standardLocations ==
  << <<"/", "sitemap", ".xml">>, <<"/", "sitemap", "_index", ".xml">>,
     <<"/", "sitemap", "-index", ".xml">>, <<"/", "sitemap", "s", ".xml">>,
     <<"/", "sitemap", "1", ".xml">>, <<"/", "wp-", "sitemap", ".xml">>,
     <<"/", "post-", "sitemap", ".xml">>, <<"/", "page-", "sitemap", ".xml">> >>

\* pathname.endsWith(".xml") || pathname.includes("sitemap")
LooksDirect(u) ==
  endsWith(u.pathname, <<".xml">>) \/ includes(u.pathname, "sitemap")

\* A list that tries the seed after the standard locations.
InitialCandidatesSeedLast(u) ==
  [i \in 1..Len(standardLocations) |-> u.origin \o standardLocations[i]]
  \o (IF LooksDirect(u) THEN <<u.href>> ELSE <<>>)

\* candidates before robots.txt is read: the seed, when it looks like a
\* sitemap, then the eight standard locations.
InitialCandidates(u) ==
  (IF LooksDirect(u) THEN <<u.href>> ELSE <<>>)
  \o [i \in 1..Len(standardLocations) |-> u.origin \o standardLocations[i]]

RobotsUrl(u) == u.origin \o <<"/", "robots", ".txt">>

\* ^sitemap: with the flags i and m
IsDirective(t, p) ==
  /\ t[p] \in {"Sitemap:", "sitemap:", "SITEMAP:"}
  /\ (p = 1 \/ t[p - 1] = "\n")

\* the directives at or after `from` that have text after them
DirectiveHeads(t, from) ==
  {p \in from..Len(t) :
     IsDirective(t, p) /\ \E w \in (p + 1)..Len(t) : t[w] \notin WS}

\* \s* runs over white space, line ends included
ValueStart(t, p) == MinOf({i \in (p + 1)..Len(t) : t[i] \notin WS})

\* (.+)$ takes the rest of the line
LineEnd(t, w) ==
  IF \A i \in w..Len(t) : t[i] # "\n" THEN Len(t)
  ELSE MinOf({i \in w..Len(t) : t[i] = "\n"}) - 1

DirectiveEnd(t, p) == LineEnd(t, ValueStart(t, p))

DirectiveValue(t, p) == trim(SubSeq(t, ValueStart(t, p), DirectiveEnd(t, p)))

\* /^sitemap:\s*(.+)$/gim from position `from` on: the trimmed captures, in
\* order of appearance; the search resumes after each match.
RECURSIVE RobotsSitemaps(_, _)
RobotsSitemaps(t, from) ==
  IF DirectiveHeads(t, from) = {} THEN <<>>
  ELSE <<DirectiveValue(t, MinOf(DirectiveHeads(t, from)))>>
       \o RobotsSitemaps(t, DirectiveEnd(t, MinOf(DirectiveHeads(t, from))) + 1)

Reverse(xs) == [i \in 1..Len(xs) |-> xs[Len(xs) + 1 - i]]

\* the directives of a robots.txt that was fetched with response.ok
DeclaredIn(r) ==
  IF r.status = "ok" THEN RobotsSitemaps(r.body.head, 1) ELSE <<>>

\* candidates.unshift(sitemapUrl) for every directive in turn
Unshifted(declared, cands) == Reverse(declared) \o cands

\* the candidate list after robots.txt, through [...new Set(candidates)]
UniqueCandidates(u) ==
  Unique(Unshifted(DeclaredIn(Fetch(RobotsUrl(u))), InitialCandidates(u)))

----------------------------------------------------------------------------
(* Sitemap handler: result *)

\* A filter that keeps the last occurrence of each loc.
MarkedLast(urls) ==
  [i \in 1..Len(urls) |->
     [x |-> urls[i],
      new |-> ~ \E j \in (i + 1)..Len(urls) : urls[j].loc = urls[i].loc]]

Marked(urls) ==
  [i \in 1..Len(urls) |->
     [x |-> urls[i],
      new |-> ~ \E j \in 1..(i - 1) : urls[j].loc = urls[i].loc]]

\* allUrls.filter(u => !seen.has(u.loc) && seen.add(u.loc))
DedupByLoc(urls) == Xs(SelectSeq(Marked(urls), IsNew))

\* if (allUrls.length > MAX_URLS) allUrls = allUrls.slice(0, MAX_URLS)
TrimToMax(urls) ==
  IF Len(urls) > MAX_URLS THEN SubSeq(urls, 1, MAX_URLS) ELSE urls

\* the first segment of a pathname that has one, from its position on
SegmentFrom(pathname, first) ==
  SubSeq(pathname, first,
         IF \A i \in first..Len(pathname) : pathname[i] # "/"
         THEN Len(pathname)
         ELSE MinOf({i \in first..Len(pathname) : pathname[i] = "/"}) - 1)

TopLevelOf(u) ==
  IF ~u.ok \/ (\A i \in 1..Len(u.pathname) : u.pathname[i] = "/") THEN <<>>
  ELSE <<"/">> \o SegmentFrom(u.pathname,
                 MinOf({i \in 1..Len(u.pathname) : u.pathname[i] # "/"}))

\* `/${segments[0]}` of new URL(loc).pathname.split("/").filter(Boolean),
\* or <<>> when the loc does not parse or its path has no segment.
TopLevel(loc) == TopLevelOf(ParseUrl(loc))

\* The keys of the pathSegments map, one per counted url
TopLevels(urls) ==
  SelectSeq([i \in 1..Len(urls) |-> TopLevel(urls[i].loc)], Truthy)

CountOf(tops, k) == Cardinality({i \in 1..Len(tops) : tops[i] = k})

\* A sort that puts the later of two keys with equal counts first.
RankOfLatestFirst(tops, keys, i) ==
  1 + Cardinality({j \in 1..Len(keys) :
        \/ CountOf(tops, keys[j]) > CountOf(tops, keys[i])
        \/ (CountOf(tops, keys[j]) = CountOf(tops, keys[i]) /\ j > i)})

\* sort((a, b) => b[1] - a[1]) is stable: the place of key i is one more than
\* the number of keys with a greater count or an equal count and an earlier
\* insertion.
RankOf(tops, keys, i) ==
  1 + Cardinality({j \in 1..Len(keys) :
        \/ CountOf(tops, keys[j]) > CountOf(tops, keys[i])
        \/ (CountOf(tops, keys[j]) = CountOf(tops, keys[i]) /\ j < i)})

KeyAt(tops, keys, r) == CHOOSE i \in 1..Len(keys) : RankOf(tops, keys, i) = r

Entry(tops, k) == <<k, CountOf(tops, k)>>

\* [...pathSegments.entries()].sort((a, b) => b[1] - a[1])
SortedEntries(tops, keys) ==
  [r \in 1..Len(keys) |-> Entry(tops, keys[KeyAt(tops, keys, r)])]

\* .slice(0, 30)
Top30(sorted) == IF Len(sorted) > 30 THEN SubSeq(sorted, 1, 30) ELSE sorted

CategoriesOf(tops) == Top30(SortedEntries(tops, Unique(tops)))

Categories(urls) == CategoriesOf(TopLevels(urls))

Absent == <<"(absent)">>

JsNull == <<"(null)">>

NoResponse == [status |-> 0]

BlankResponse ==
  [status |-> 200, error |-> Absent, message |-> Absent,
   feedUrl |-> Absent, feedsFound |-> <<>>, items |-> <<>>, totalItems |-> 0,
   source |-> Absent,
   sitemapUrl |-> Absent, discoveredSitemaps |-> <<>>, urls |-> <<>>,
   totalUrls |-> 0, categories |-> <<>>]

ErrorResponse(code, text) ==
  [BlankResponse EXCEPT !.status = code, !.error = text]

SitemapBody(urls, discovered, primary) ==
  IF Len(urls) = 0
  THEN [BlankResponse EXCEPT
          !.sitemapUrl = JsNull,
          !.discoveredSitemaps = discovered,
          !.message = IF Len(discovered) > 0
                      THEN <<"Found sitemap files but they contain no URL entries.">>
                      ELSE <<"No XML sitemaps found for this domain. Try providing the direct sitemap URL.">>]
  ELSE [BlankResponse EXCEPT
          !.sitemapUrl = primary,
          !.discoveredSitemaps = discovered,
          !.urls = urls,
          !.totalUrls = Len(urls),
          !.categories = Categories(urls)]

\* Everything from "Deduplicate URLs by loc" to the returned response.
SitemapResponse(accumulated, discovered, primary) ==
  SitemapBody(TrimToMax(DedupByLoc(accumulated)), discovered, primary)

----------------------------------------------------------------------------
(* Request validation, common to both handlers *)

\* !url || typeof url !== "string"
NoUrl(r) ==
  \/ r.type = "undefined"
  \/ (r.type = "number" /\ r.num = 0)
  \/ (r.type = "string" /\ ~Truthy(r.str))
  \/ r.type # "string"

\* new URL(url.startsWith("http") ? url : `https://${url}`)
SeedUrl(r) == ParseUrl(NormalizeSeed(r.str))

\* Validation that leaves out the URL format test.
RejectedUnparsed(r, fault) ==
  IF ~r.json THEN ErrorResponse(500, <<fault>>)
  ELSE IF NoUrl(r) THEN ErrorResponse(400, <<"Please provide a valid URL">>)
  ELSE NoResponse

\* The response that ends the request before any fetch, or NoResponse.
\* request.json() rejecting, or destructuring a null body, is caught by the
\* outer try and answered with status 500.
Rejected(r, fault) ==
  IF ~r.json THEN ErrorResponse(500, <<fault>>)
  ELSE IF NoUrl(r) THEN ErrorResponse(400, <<"Please provide a valid URL">>)
  ELSE IF ~SeedUrl(r).ok THEN ErrorResponse(400, <<"Invalid URL format">>)
  ELSE NoResponse

LogEntry(url, kind, acc) == [url |-> url, kind |-> kind, acc |-> acc]

----------------------------------------------------------------------------
(* Sitemap handler: the steps of POST, one per await *)

SitemapFault == "An unexpected error occurred while extracting the sitemap"

feedVars == <<feedItems, workingFeedUrl, validFeeds>>

childVars == <<childSitemaps, childPending, childResults>>

\* The handler returns: everything after the candidate loop.
SmFinish(urls, disc, prim) ==
  /\ allUrls' = urls
  /\ discoveredSitemaps' = disc
  /\ primarySitemapUrl' = prim
  /\ response' = SitemapResponse(urls, disc, prim)
  /\ pc' = "done"
  /\ UNCHANGED <<idx, fetchLog>>

\* if (allUrls.length >= MAX_URLS) break, at the head of an iteration
CapReached(urls) == Len(urls) >= MAX_URLS

\* The head of the candidate loop at candidate i: leave the loop when the
\* candidates are exhausted or the cap is reached, else issue fetchXml.
SmLoop(cands, i, urls, disc, prim) ==
  IF i > Len(cands) \/ CapReached(urls)
  THEN SmFinish(urls, disc, prim)
  ELSE /\ allUrls' = urls
       /\ discoveredSitemaps' = disc
       /\ primarySitemapUrl' = prim
       /\ idx' = i
       /\ fetchLog' = Append(fetchLog, LogEntry(cands[i], "candidate", Len(urls)))
       /\ pc' = "candidate"
       /\ UNCHANGED response

\* A loop that never leaves early.
FoundNever(urls) == FALSE

\* if (allUrls.length > 0) break, at the end of an iteration
FoundUrls(urls) == Len(urls) > 0

SmNextCandidate(urls, disc, prim) ==
  IF FoundUrls(urls) THEN SmFinish(urls, disc, prim)
  ELSE SmLoop(candidates, idx + 1, urls, disc, prim)

SmValidated(rejection, u) ==
  IF rejection # NoResponse
  THEN /\ response' = rejection
       /\ pc' = "done"
       /\ UNCHANGED <<fetchLog, parsedUrl>>
  ELSE /\ parsedUrl' = u
       /\ fetchLog' = Append(fetchLog, LogEntry(RobotsUrl(u), "robots", 0))
       /\ pc' = "robots"
       /\ UNCHANGED response

\* POST up to the await of the robots.txt fetch.
SmStart ==
  /\ handler = "sitemap" /\ pc = "start"
  /\ SmValidated(Rejected(req, SitemapFault), SeedUrl(req))
  /\ UNCHANGED <<handler, req, web, keywordData, memoLog, candidates, idx, allUrls,
                 discoveredSitemaps, primarySitemapUrl, childVars, feedVars,
                 mergeLog>>

SmCandidates(cands) ==
  /\ candidates' = cands
  /\ SmLoop(cands, 1, <<>>, <<>>, <<>>)

\* The robots.txt fetch settles: directives are put in front, the list is
\* deduplicated and the loop starts.
SmRobotsDone ==
  /\ handler = "sitemap" /\ pc = "robots"
  /\ SmCandidates(UniqueCandidates(parsedUrl))
  /\ UNCHANGED <<handler, req, web, keywordData, memoLog, childVars, feedVars, parsedUrl, mergeLog>>

Pending == [settled |-> FALSE, value |-> <<>>]

Fulfilled(v) == [settled |-> TRUE, value |-> v]

\* A batch that takes every child the index lists.
AllChildren(sitemapIndexUrls) == sitemapIndexUrls

\* sitemapIndexUrls.slice(0, MAX_CHILD_SITEMAPS)
FirstChildren(sitemapIndexUrls) ==
  IF Len(sitemapIndexUrls) > MAX_CHILD_SITEMAPS
  THEN SubSeq(sitemapIndexUrls, 1, MAX_CHILD_SITEMAPS)
  ELSE sitemapIndexUrls

\* the fetches of the child sitemaps are issued together
SmExpand(children, urls, disc, prim) ==
  /\ allUrls' = urls
  /\ discoveredSitemaps' = disc
  /\ primarySitemapUrl' = prim
  /\ childSitemaps' = children
  /\ childPending' = 1..Len(children)
  /\ childResults' = [i \in 1..Len(children) |-> Pending]
  /\ fetchLog' = fetchLog \o
       [i \in 1..Len(children) |-> LogEntry(children[i], "child", Len(urls))]
  /\ pc' = "children"
  /\ UNCHANGED <<idx, response>>

\* A primary that follows the latest usable candidate.
PrimaryAfterLatest(candidate) == candidate

\* if (!primarySitemapUrl) primarySitemapUrl = candidate
PrimaryAfter(candidate) ==
  IF ~Truthy(primarySitemapUrl) THEN candidate ELSE primarySitemapUrl

SmParsed(candidate, parsed) ==
  IF Len(parsed.sitemapIndexUrls) > 0
  THEN SmExpand(FirstChildren(parsed.sitemapIndexUrls),
                allUrls \o parsed.urls,
                Append(discoveredSitemaps, candidate), PrimaryAfter(candidate))
  ELSE /\ SmNextCandidate(allUrls \o parsed.urls,
                          Append(discoveredSitemaps, candidate),
                          PrimaryAfter(candidate))
       /\ UNCHANGED childVars

\* A candidate loop in which a failed fetch ends the request with an error.
SmCandidateAborts(candidate, xml) ==
  IF ~xml.ok
  THEN /\ response' = ErrorResponse(500, <<SitemapFault>>)
       /\ pc' = "done"
       /\ UNCHANGED <<idx, fetchLog, allUrls, discoveredSitemaps,
                      primarySitemapUrl>>
       /\ UNCHANGED childVars
  ELSE SmParsed(candidate, parseSitemapXml(xml.text))

SmCandidateResult(candidate, xml) ==
  IF ~xml.ok
  THEN /\ SmLoop(candidates, idx + 1, allUrls, discoveredSitemaps,
                 primarySitemapUrl)
       /\ UNCHANGED childVars
  ELSE SmParsed(candidate, parseSitemapXml(xml.text))

\* The fetch of candidates[idx] settles.  A null result moves on; otherwise
\* the document is recorded and parsed and, for an index, the fetches of its
\* first MAX_CHILD_SITEMAPS children are issued together.
SmCandidateDone ==
  /\ handler = "sitemap" /\ pc = "candidate"
  /\ SmCandidateResult(candidates[idx], fetchXml(candidates[idx]))
  /\ UNCHANGED <<handler, req, web, keywordData, memoLog, candidates, feedVars, parsedUrl, mergeLog>>

\* what a child document and the first sitemap it lists hold together
DeepUrls(parsed) ==
  parsed.urls
  \o (IF Len(parsed.sitemapIndexUrls) > 0
      THEN parseSitemapXml(fetchXml(parsed.sitemapIndexUrls[1]).text).urls
      ELSE <<>>)

\* A child task that expands the document it fetched one level further.
SmChildResultDeep(i, childUrl, childXml) ==
  IF childXml.ok
  THEN /\ discoveredSitemaps' = Append(discoveredSitemaps, childUrl)
       /\ childResults' = [childResults EXCEPT
             ![i] = Fulfilled(DeepUrls(parseSitemapXml(childXml.text)))]
  ELSE /\ UNCHANGED discoveredSitemaps
       /\ childResults' = [childResults EXCEPT ![i] = Fulfilled(<<>>)]

\* A child task that does not record the document it fetched.
SmChildResultUnlisted(i, childUrl, childXml) ==
  /\ UNCHANGED discoveredSitemaps
  /\ childResults' = [childResults EXCEPT
        ![i] = Fulfilled(IF childXml.ok THEN parseSitemapXml(childXml.text).urls
                         ELSE <<>>)]

SmChildResult(i, childUrl, childXml) ==
  IF childXml.ok
  THEN /\ discoveredSitemaps' = Append(discoveredSitemaps, childUrl)
       /\ childResults' = [childResults EXCEPT
             ![i] = Fulfilled(parseSitemapXml(childXml.text).urls)]
  ELSE /\ UNCHANGED discoveredSitemaps
       /\ childResults' = [childResults EXCEPT ![i] = Fulfilled(<<>>)]

\* fetch() of a string that is no absolute URL rejects without any I/O: the
\* task settles in the microtasks that follow the issue of the batch.
Immediate(childUrl) == ~ParseUrl(childUrl).ok

\* The order in which pending child tasks can settle: the immediate ones
\* first, in the order of their issue; the others, which wait for the
\* network, after them in any order.
SettlesNext(i, pending, children) ==
  IF Immediate(children[i])
  THEN \A j \in pending : Immediate(children[j]) => i <= j
  ELSE \A j \in pending : ~Immediate(children[j])

\* One child task runs to its end: its fetch settles, a usable document is
\* pushed onto discoveredSitemaps and its urls become the task's value.
SmChildDone(i) ==
  /\ handler = "sitemap" /\ pc = "children"
  /\ i \in childPending
  /\ SettlesNext(i, childPending, childSitemaps)
  /\ SmChildResult(i, childSitemaps[i], fetchXml(childSitemaps[i]))
  /\ childPending' = childPending \ {i}
  /\ UNCHANGED <<handler, req, web, keywordData, memoLog, pc, fetchLog, candidates, idx, allUrls,
                 primarySitemapUrl, childSitemaps, feedVars, parsedUrl,
                 mergeLog, response>>

\* for (const result of childResults) { push; if (length >= MAX_URLS) break }
\* MergedCount is the number of results pushed.
RECURSIVE MergedCount(_, _, _)
MergedCount(len, results, k) ==
  IF k > Len(results) THEN Len(results)
  ELSE IF len + Len(results[k].value) >= MAX_URLS THEN k
  ELSE MergedCount(len + Len(results[k].value), results, k + 1)

\* the values of the first k results, concatenated
RECURSIVE Concat(_, _)
Concat(results, k) ==
  IF k = 0 THEN <<>> ELSE Concat(results, k - 1) \o results[k].value

\* allUrls.length as each of the first k merged results found it
RECURSIVE LengthsBefore(_, _, _)
LengthsBefore(len, results, k) ==
  IF k = 0 THEN <<>>
  ELSE LengthsBefore(len, results, k - 1)
       \o <<len + Len(Concat(results, k - 1))>>

SmMerge(m) ==
  /\ mergeLog' = mergeLog \o LengthsBefore(Len(allUrls), childResults, m)
  /\ SmNextCandidate(allUrls \o Concat(childResults, m),
                     discoveredSitemaps, primarySitemapUrl)

\* Promise.allSettled resolves: the results are merged in child order and
\* the iteration ends.
SmChildrenSettled ==
  /\ handler = "sitemap" /\ pc = "children"
  /\ childPending = {}
  /\ SmMerge(MergedCount(Len(allUrls), childResults, 1))
  /\ UNCHANGED <<handler, req, web, keywordData, memoLog, candidates, childVars, feedVars, parsedUrl>>

SmNext ==
  \/ SmStart
  \/ SmRobotsDone
  \/ SmCandidateDone
  \/ \E i \in 1..MAX_CHILD_SITEMAPS : SmChildDone(i)
  \/ SmChildrenSettled

----------------------------------------------------------------------------
(* Feed handler: the steps of POST, one per await *)

FeedFault == "An unexpected error occurred while extracting feeds"

smVars == <<allUrls, discoveredSitemaps, primarySitemapUrl, childVars, mergeLog>>

StartsLikeFeed(trimmed) ==
  \/ startsWith(trimmed, <<"<?xml">>)
  \/ startsWith(trimmed, <<"<rss">>)
  \/ startsWith(trimmed, <<"<feed">>)

\* A test that knows the XML prolog only.
IsXmlProlog(pageHtml) == startsWith(trimStart(Opening(pageHtml)), <<"<?xml">>)

\* pageHtml.trimStart().startsWith("<?xml") || ... "<rss" || ... "<feed"
IsXml(pageHtml) == StartsLikeFeed(trimStart(Opening(pageHtml)))

HasFeedTag(text) ==
  includes(text, "<rss") \/ includes(text, "<feed") \/ includes(text, "<channel")

\* feedXml.includes("<rss") || includes("<feed") || includes("<channel")
IsValidFeed(feedXml) ==
  \/ HasFeedTag(feedXml.head)
  \/ \E i \in 1..Len(feedXml.blocks) : HasFeedTag(feedXml.blocks[i].content)

DirectBody(href, items) ==
  [BlankResponse EXCEPT
     !.feedUrl = href, !.feedsFound = <<href>>, !.items = items,
     !.totalItems = Len(items), !.source = <<"direct">>]

DirectResponse(href, pageHtml) == DirectBody(href, parseRssFeed(pageHtml))

\* An empty discovery that always reports that no feed was found.
DiscoveryResponseOneMessage(items, working, valid) ==
  IF Len(items) = 0
  THEN [BlankResponse EXCEPT
          !.feedUrl = JsNull, !.feedsFound = valid, !.source = <<"discovery">>,
          !.message = <<"No RSS/Atom feeds found on this page.">>]
  ELSE [BlankResponse EXCEPT
          !.feedUrl = working, !.feedsFound = valid, !.items = items,
          !.totalItems = Len(items), !.source = <<"discovery">>]

DiscoveryResponse(items, working, valid) ==
  IF Len(items) = 0
  THEN [BlankResponse EXCEPT
          !.feedUrl = JsNull, !.feedsFound = valid, !.source = <<"discovery">>,
          !.message = IF Len(valid) > 0
                      THEN <<"Found feed URLs but could not extract items from them.">>
                      ELSE <<"No RSS/Atom feeds found on this page.">>]
  ELSE [BlankResponse EXCEPT
          !.feedUrl = working, !.feedsFound = valid, !.items = items,
          !.totalItems = Len(items), !.source = <<"discovery">>]

\* The head of the discovery loop at candidate i: respond when the
\* candidates are exhausted, else issue the fetch of candidate i.
FdLoop(cands, i, items, working, valid) ==
  /\ feedItems' = items
  /\ workingFeedUrl' = working
  /\ validFeeds' = valid
  /\ IF i > Len(cands)
     THEN /\ response' = DiscoveryResponse(items, working, valid)
          /\ pc' = "done"
          /\ UNCHANGED <<idx, fetchLog>>
     ELSE /\ idx' = i
          /\ fetchLog' = Append(fetchLog, LogEntry(cands[i], "feed", 0))
          /\ pc' = "feed"
          /\ UNCHANGED response

FdValidated(rejection, u) ==
  IF rejection # NoResponse
  THEN /\ response' = rejection
       /\ pc' = "done"
       /\ UNCHANGED <<fetchLog, parsedUrl>>
  ELSE /\ parsedUrl' = u
       /\ fetchLog' = Append(fetchLog, LogEntry(u.href, "seed", 0))
       /\ pc' = "page"
       /\ UNCHANGED response

\* POST up to the await of the seed page fetch.
FdStart ==
  /\ handler = "feed" /\ pc = "start"
  /\ FdValidated(Rejected(req, FeedFault), SeedUrl(req))
  /\ UNCHANGED <<handler, req, web, keywordData, memoLog, candidates, idx, feedVars, smVars>>

FdRespond(r) ==
  /\ response' = r
  /\ pc' = "done"
  /\ UNCHANGED <<candidates, idx, fetchLog, feedVars>>

FdDiscover(cands) ==
  /\ candidates' = cands
  /\ FdLoop(cands, 1, <<>>, <<>>, <<>>)

\* A seed page fetch whose non-2xx answer is read like a page.
FdPageResultLenient(r) ==
  IF r.status \in {"neterr", "timeout"}
  THEN FdRespond(ErrorResponse(422, <<"Could not reach the URL: ", r.code>>))
  ELSE IF IsXml(r.body)
  THEN FdRespond(DirectResponse(parsedUrl.href, r.body))
  ELSE FdDiscover(extractRssUrls(r.body, parsedUrl.href))

FdPageResult(r) ==
  IF r.status \in {"neterr", "timeout"}
  THEN FdRespond(ErrorResponse(422, <<"Could not reach the URL: ", r.code>>))
  ELSE IF r.status # "ok"
  THEN FdRespond(ErrorResponse(422, <<"Failed to fetch URL (HTTP ", r.code, ")">>))
  ELSE IF IsXml(r.body)
  THEN FdRespond(DirectResponse(parsedUrl.href, r.body))
  ELSE FdDiscover(extractRssUrls(r.body, parsedUrl.href))

\* The seed page fetch settles: a fetch error or a non-2xx status ends the
\* request with 422, an XML body is parsed directly, any other body starts
\* discovery.
FdPageDone ==
  /\ handler = "feed" /\ pc = "page"
  /\ FdPageResult(Fetch(parsedUrl.href))
  /\ UNCHANGED <<handler, req, web, keywordData, memoLog, parsedUrl, smVars>>

\* A comparison under which the first feed that has items is kept.
BetterOrFirst(items, best) == Len(best) = 0 /\ Len(items) > 0

\* A comparison that lets a candidate with as many items win.
BetterOrEqual(items, best) == Len(items) >= Len(best)

\* if (items.length > feedItems.length)
Better(items, best) == Len(items) > Len(best)

\* A discovery that ends at the first feed with items.
FdConsiderStops(feedUrl, items) ==
  IF Better(items, feedItems)
  THEN FdLoop(candidates, Len(candidates) + 1, items, feedUrl,
              Append(validFeeds, feedUrl))
  ELSE FdLoop(candidates, idx + 1, feedItems, workingFeedUrl,
              Append(validFeeds, feedUrl))

FdConsider(feedUrl, items) ==
  IF Better(items, feedItems)
  THEN FdLoop(candidates, idx + 1, items, feedUrl, Append(validFeeds, feedUrl))
  ELSE FdLoop(candidates, idx + 1, feedItems, workingFeedUrl,
              Append(validFeeds, feedUrl))

\* A discovery that fetches a candidate once more after a timeout.
FdCandidateResultRetries(feedUrl, r) ==
  IF r.status = "timeout" /\ fetchLog[Len(fetchLog) - 1].url # feedUrl
  THEN /\ fetchLog' = Append(fetchLog, LogEntry(feedUrl, "feed", 0))
       /\ UNCHANGED <<feedVars, idx, pc, response>>
  ELSE IF r.status # "ok" \/ ~IsValidFeed(r.body)
  THEN FdLoop(candidates, idx + 1, feedItems, workingFeedUrl, validFeeds)
  ELSE FdConsider(feedUrl, parseRssFeed(r.body))

FdCandidateResult(feedUrl, r) ==
  IF r.status # "ok" \/ ~IsValidFeed(r.body)
  THEN FdLoop(candidates, idx + 1, feedItems, workingFeedUrl, validFeeds)
  ELSE FdConsider(feedUrl, parseRssFeed(r.body))

\* The fetch of candidates[idx] settles: an unreachable, non-2xx or
\* invalid candidate is skipped; a valid one is recorded and replaces the
\* best feed when it has more items.
FdCandidateDone ==
  /\ handler = "feed" /\ pc = "feed"
  /\ FdCandidateResult(candidates[idx], Fetch(candidates[idx]))
  /\ UNCHANGED <<handler, req, web, keywordData, memoLog, candidates, parsedUrl, smVars>>

FdNext ==
  \/ FdStart
  \/ FdPageDone
  \/ FdCandidateDone

----------------------------------------------------------------------------
(* SitemapExtractor component: keyword phrases of the urls of a result *)

SKIP_SEGMENTS ==
  { <<"page">>, <<"index">>, <<"default">>, <<"category">>, <<"categories">>,
    <<"tag">>, <<"tags">>, <<"archive">>, <<"archives">>,
    <<"wp", "-", "content">>, <<"wp", "-", "includes">>, <<"wp", "-", "admin">>,
    <<"uploads">>, <<"feed">>, <<"rss">>, <<"atom">>, <<"sitemap">>,
    <<"search">>, <<"login">>, <<"register">>, <<"author">>, <<"admin">>,
    <<"api">>, <<"static">>, <<"assets">>, <<"images">>, <<"img">>, <<"css">>,
    <<"js">>, <<"fonts">>, <<"media">>, <<"files">>, <<"docs">>, <<"blog">>,
    <<"post">>, <<"posts">>, <<"amp">>, <<"embed">>, <<"attachment">> }

LOWERCASE_WORDS ==
  { <<"a">>, <<"an">>, <<"the">>, <<"and">>, <<"or">>, <<"but">>, <<"in">>,
    <<"on">>, <<"at">>, <<"to">>, <<"for">>, <<"of">>, <<"with">>, <<"by">>,
    <<"from">>, <<"as">>, <<"is">>, <<"nor">>, <<"so">>, <<"yet">>, <<"via">> }

\* the tokens [-_] of a slug
Separators == {"-", "_"}

\* tokens that are a dot followed by characters other than a dot
Extensions == {".html", ".xml", ".tar", ".gz"}

\* tokens made of digits
Numerals == {"1", "2", "3"}

\* String.prototype.toLowerCase on a token
LowerToken(w) ==
  IF w = "Best" THEN "best"
  ELSE IF w = "Wall" THEN "wall"
  ELSE IF w = "TO" THEN "to"
  ELSE IF w = "Blog" THEN "blog"
  ELSE w

toLowerCase(t) == [i \in 1..Len(t) |-> LowerToken(t[i])]

\* pathname.split("/").filter(Boolean)
RECURSIVE SplitPath(_)
SplitPath(path) ==
  IF path = <<>> THEN <<>>
  ELSE IF path[1] = "/" THEN SplitPath(Tail(path))
  ELSE <<SegmentFrom(path, 1)>>
       \o SplitPath(SubSeq(path, Len(SegmentFrom(path, 1)) + 1, Len(path)))

\* replace(/\.[^.]+$/, "")
StripExtension(seg) ==
  IF Len(seg) > 0 /\ seg[Len(seg)] \in Extensions
  THEN SubSeq(seg, 1, Len(seg) - 1)
  ELSE seg

\* /^\d+$/.test(raw)
IsNumeric(raw) == Len(raw) > 0 /\ \A i \in 1..Len(raw) : raw[i] \in Numerals

\* the places where a word of a slug begins: split(/[-_]+/) without the
\* empty parts
WordStarts(raw) ==
  {i \in 1..Len(raw) :
     raw[i] \notin Separators /\ (i = 1 \/ raw[i - 1] \in Separators)}

WordEnd(raw, i) ==
  IF \A j \in i..Len(raw) : raw[j] \notin Separators THEN Len(raw)
  ELSE MinOf({j \in i..Len(raw) : raw[j] \in Separators}) - 1

KthStart(raw, k) ==
  CHOOSE i \in WordStarts(raw) : Cardinality({j \in WordStarts(raw) : j <= i}) = k

\* word k of a slug, in lower case
WordAt(raw, k) ==
  toLowerCase(SubSeq(raw, KthStart(raw, k), WordEnd(raw, KthStart(raw, k))))

\* a word of a phrase: its lower-case text, and whether its first letter is
\* made upper case
TitleWord(i, lower) ==
  [upper |-> (i = 1 \/ lower \notin LOWERCASE_WORDS), text |-> lower]

TitleOf(cleaned) ==
  [k \in 1..Cardinality(WordStarts(cleaned)) |-> TitleWord(k, WordAt(cleaned, k))]

\* slugToTitle: the extension is removed (once more), the words are put in
\* title case; "" for a slug without a word
slugToTitle(slug) == TitleOf(StripExtension(slug))

\* the loop of extractKeywordPhrase from segment i down to the first one
RECURSIVE PhraseFrom(_, _)
PhraseFrom(segments, i) ==
  IF i = 0 THEN <<>>
  ELSE IF \/ IsNumeric(StripExtension(segments[i]))
          \/ toLowerCase(StripExtension(segments[i])) \in SKIP_SEGMENTS
          \/ Cardinality(WordStarts(StripExtension(segments[i]))) < 2
  THEN PhraseFrom(segments, i - 1)
  ELSE slugToTitle(StripExtension(segments[i]))

PhraseOfPath(segments) == PhraseFrom(segments, Len(segments))

PhraseOfUrl(u) == IF u.ok THEN PhraseOfPath(SplitPath(u.pathname)) ELSE <<>>

\* the phrase of a URL; <<>> stands for null and for ""
extractKeywordPhrase(url) == PhraseOfUrl(ParseUrl(url))

\* A tally that is not sorted.
KeywordEntriesUnsorted(phrases) ==
  [k \in 1..Len(Unique(phrases)) |-> Entry(phrases, Unique(phrases)[k])]

\* Array.from(map.entries()).sort((a, b) => b[1] - a[1])
KeywordEntries(phrases) == SortedEntries(phrases, Unique(phrases))

\* keywordData.sorted for the urls of a result
KeywordsOf(urls) ==
  KeywordEntries(SelectSeq([i \in 1..Len(urls) |-> extractKeywordPhrase(urls[i].loc)],
                           Truthy))

\* bound on the number of runs of the memo that are followed
MaxRuns == 2

\* the entries of urls in the order given by the permutation f
Reordered(urls, f) == [i \in 1..Len(urls) |-> urls[f[i]]]

\* setResult(data): a later answer lists the same entries in another order.
KwSetResult ==
  /\ pc = "done" /\ handler = "sitemap" /\ response.status = 200
  /\ Len(memoLog) > 0 /\ memoLog[Len(memoLog)].urls = response.urls
  /\ \E f \in Permutations(1..Len(response.urls)) :
       /\ Reordered(response.urls, f) # response.urls
       /\ response' = SitemapBody(Reordered(response.urls, f),
                                  response.discoveredSitemaps,
                                  response.sitemapUrl)
  /\ UNCHANGED <<handler, req, web, pc, fetchLog, candidates, idx, smVars,
                 feedVars, parsedUrl, keywordData, memoLog>>

\* The keywordData memo runs on the current result.
KwMemo ==
  /\ pc = "done" /\ handler = "sitemap" /\ response.status = 200
  /\ Len(memoLog) < MaxRuns
  /\ keywordData' = KeywordsOf(response.urls)
  /\ memoLog' = Append(memoLog, [urls |-> response.urls,
                                 sorted |-> KeywordsOf(response.urls)])
  /\ UNCHANGED <<handler, req, web, pc, fetchLog, candidates, idx, smVars,
                 feedVars, parsedUrl, response>>

----------------------------------------------------------------------------
(* Requests and networks the handlers are run against *)

\* number of distinct pages a generated sitemap can list
NumPages == 2

\* greatest number of <url> entries of a generated sitemap
MaxDocLen == 2

\* greatest number of items of a generated feed
MaxItems == 2

A == <<"http", "s", "://", "a.com">>

B == <<"http", "://", "b.org">>

Section(i) == IF i % 2 = 1 THEN "blog" ELSE "news"

Page(i) == A \o <<"/", Section(i), "/", ToString(i)>>

Str(s) == [json |-> TRUE, type |-> "string", num |-> 0, str |-> s]

BadRequests ==
  { [json |-> FALSE, type |-> "undefined", num |-> 0, str |-> <<>>],
    [json |-> TRUE, type |-> "undefined", num |-> 0, str |-> <<>>],
    [json |-> TRUE, type |-> "number", num |-> 0, str |-> <<>>],
    [json |-> TRUE, type |-> "number", num |-> 7, str |-> <<>>],
    Str(<<>>), Str(<<" ">>), Str(<<"a.com", " ", "b.org">>),
    Str(<<"http", "bin.org">>), Str(<<"://", "a.com">>) }

Ok(body) == [status |-> "ok", code |-> "200", body |-> body]

Http(code) == [status |-> "http", code |-> code, body |-> EmptyBody]

Timeout ==
  [status |-> "timeout", code |-> "The operation was aborted due to timeout",
   body |-> EmptyBody]

\* a 200 response that is a HTML error page
HtmlOk == Ok([head |-> <<"<!DOCTYPE html>", "<html">>, blocks |-> <<>>])

UrlBlock(loc, mod) ==
  [tag |-> "url",
   content |-> <<"<loc>">> \o loc \o <<"</loc>", "<lastmod>", mod, "</lastmod>">>]

SitemapBlock(loc) ==
  [tag |-> "sitemap", content |-> <<"<loc>">> \o loc \o <<"</loc>">>]

\* <urlset> listing the given pages; the lastmod of an entry names the
\* document (doc) and the position of the entry in it.
Urlset(doc, pages) ==
  [head |-> <<"<?xml", "\n", "<urlset">>,
   blocks |-> [k \in 1..Len(pages) |->
                 UrlBlock(Page(pages[k]), ToString(10 * doc + k))]]

\* <sitemapindex> listing the given children, then <url> entries for pages
IndexDoc(doc, children, pages) ==
  [head |-> <<"<sitemapindex">>,
   blocks |-> [k \in 1..Len(children) |-> SitemapBlock(children[k])]
              \o Urlset(doc, pages).blocks]

\* <urlset> whose entries have a blank <loc>, a CDATA <loc> with white space
\* around it, and no <loc>
OddLocDoc(doc) ==
  [head |-> <<" ", "<urlset">>,
   blocks |-> << [tag |-> "url", content |-> <<"<loc>", " ", "</loc>">>],
                 [tag |-> "url",
                  content |-> <<"<loc>", CDATA_OPEN, "\n">> \o Page(1)
                              \o <<" ", CDATA_CLOSE, "</loc>">>],
                 [tag |-> "url",
                  content |-> <<"<lastmod>", ToString(doc), "</lastmod>">>] >>]

PageSeqs == UNION {[1..n -> 1..NumPages] : n \in 0..MaxDocLen}

RobotsTxt(lines) == [head |-> lines, blocks |-> <<>>]

Std(i) == A \o standardLocations[i]

Custom == A \o <<"/", "custom", ".xml">>

Child(i) == A \o <<"/", "child", ToString(i), ".xml">>

RobotsOptions ==
  { Http("404"),
    Ok(RobotsTxt(<<"User-agent:", " ", "*">>)),
    Ok(RobotsTxt(<<"User-agent:", " ", "*", "\n", "Sitemap:", " ">> \o Custom)),
    Ok(RobotsTxt(<<"Sitemap:", "\n", "Sitemap:", " ">> \o Custom)),
    Ok(RobotsTxt(<<"sitemap:">> \o Std(2) \o <<" ", "\n", "Sitemap:", " ">>
                 \o Custom \o <<"\n", "Sitemap:", " ", " ">>)),
    Ok(RobotsTxt(<<"Sitemap:", " ">> \o Std(2)
                 \o <<"\n", "Sitemap:", "\n", "Sitemap:", " ">> \o Custom)) }

Std1Options ==
  {Http("404"), HtmlOk}
  \cup {Ok(Urlset(1, s)) : s \in PageSeqs}
  \cup {Ok(IndexDoc(1, <<Child(1), Child(2)>>, <<>>)),
        Ok(IndexDoc(1, <<Child(1)>>, <<1>>))}

Std2Options == {Http("404"), Ok(Urlset(2, <<2, 1>>))}

CustomOptions ==
  {Timeout, Ok(Urlset(3, <<>>)), Ok(OddLocDoc(3)),
   Ok(IndexDoc(3, <<Child(2), Std(1)>>, <<>>))}

Child1Options ==
  {Timeout, Ok(Urlset(4, <<1, 2>>)), Ok(Urlset(4, <<1, 1>>)),
   Ok(Urlset(4, <<2>>))}

Child2Options ==
  {Http("500"), HtmlOk, Ok(Urlset(5, <<2>>)),
   Ok(IndexDoc(5, <<Child(1)>>, <<1>>))}

Robots == A \o <<"/", "robots", ".txt">>

DeclaresCustom(r) ==
  r.status = "ok" /\ \E i \in 1..Len(r.body.head) : r.body.head[i] = "custom"

\* networks whose robots.txt declares nothing: the standard locations and
\* the children of their indexes vary
UndeclaredWebs ==
  { (Robots :> r) @@ (Std(1) :> s1) @@ (Std(2) :> s2) @@ (Child(1) :> c1)
    @@ (Child(2) :> c2) :
    r \in {o \in RobotsOptions : ~DeclaresCustom(o)},
    s1 \in Std1Options, s2 \in Std2Options, c1 \in Child1Options,
    c2 \in Child2Options }

\* networks whose robots.txt declares the custom sitemap
DeclaredWebs ==
  { (Robots :> r) @@ (Custom :> cu) @@ (Std(1) :> s1)
    @@ (Std(2) :> Ok(Urlset(2, <<2, 1>>))) @@ (Child(1) :> Ok(Urlset(4, <<1, 2>>)))
    @@ (Child(2) :> c2) :
    r \in {o \in RobotsOptions : DeclaresCustom(o)},
    cu \in CustomOptions,
    s1 \in {Http("404"), HtmlOk, Ok(Urlset(1, <<1>>)),
            Ok(IndexDoc(1, <<Child(1)>>, <<>>))},
    c2 \in Child2Options }

\* the loc of entry k of a sitemap with many sections: 31 sections of one
\* page each, a second page of the last section, a relative loc and the
\* bare origin
SectionLoc(k) ==
  IF k <= 31 THEN A \o <<"/", ToString(k), "/", "p">>
  ELSE IF k = 32 THEN A \o <<"/", "31", "/", "q">>
  ELSE IF k = 33 THEN <<"part", "/", "1">>
  ELSE A

SectionsDoc ==
  [head |-> <<"<urlset">>,
   blocks |-> [k \in 1..34 |->
                 [tag |-> "url",
                  content |-> <<"<loc>">> \o SectionLoc(k) \o <<"</loc>">>]]]

\* a network whose sitemap spans more sections than a response reports
SectionsWeb ==
  (Robots :> Http("404")) @@ (Std(1) :> Ok(SectionsDoc))

SitemapWebs == UndeclaredWebs \cup DeclaredWebs \cup {SectionsWeb}

SitemapRequests ==
  { Str(<<"a.com">>), Str(A \o <<"/", "sitemap", ".xml">>),
    Str(<<"a.com", "/", "custom", ".xml">>) }

\* a network on which every fetch would succeed
OpenWeb ==
  (Robots :> Ok(RobotsTxt(<<"Sitemap:", " ">> \o Custom)))
  @@ (Std(1) :> Ok(Urlset(1, <<1>>))) @@ (Custom :> Ok(Urlset(3, <<2>>)))

----------------------------------------------------------------------------
(* Feed networks *)

Post(doc, k) == A \o <<"/", "post", "/", ToString(10 * doc + k)>>

ItemBlock(doc, k) ==
  [tag |-> "item",
   content |-> <<"<title>", "T", "</title>", "<link>">> \o Post(doc, k)
               \o <<"</link>", "<pubDate>", ToString(k), "</pubDate>">>]

EntryBlock(doc, k) ==
  [tag |-> "entry",
   content |-> <<"<title>", "T", "</title>", "<link", " ", "href=">>
               \o Post(doc, k)
               \o <<QUOTE, "/>", "<updated>", ToString(k), "</updated>">>]

\* an RSS document with n items
Rss(doc, n) ==
  [head |-> <<"<?xml", "\n", "<rss", "<channel>">>,
   blocks |-> [k \in 1..n |-> ItemBlock(doc, k)]]

\* an Atom document with n entries
Atom(doc, n) ==
  [head |-> <<"<feed">>, blocks |-> [k \in 1..n |-> EntryBlock(doc, k)]]

\* an RSS document whose items have a blank <link>, a <link href> only, a
\* CDATA <link> and no title
OddRss(doc) ==
  [head |-> <<" ", "<rss">>,
   blocks |->
     << [tag |-> "item",
         content |-> <<"<title>", "T", "</title>", "<link>", " ", "</link>",
                       "<link", " ", "href=">> \o Post(doc, 1) \o <<QUOTE>>],
        [tag |-> "item",
         content |-> <<"<link", " ", "href=">> \o Post(doc, 2) \o <<QUOTE, "/>">>],
        [tag |-> "item",
         content |-> <<"<link>", CDATA_OPEN, " ">> \o Post(doc, 3)
                     \o <<"\n", CDATA_CLOSE, "</link>", "<title>", " ", "</title>">>],
        EntryBlock(doc, 4) >>]

\* a document whose only <item> has no link, followed by Atom entries, one
\* with an empty href and one with two hrefs and both dates
MixedFeed(doc) ==
  [head |-> <<"<?xml", "<feed">>,
   blocks |->
     << [tag |-> "item", content |-> <<"<title>", "T", "</title>">>],
        [tag |-> "entry",
         content |-> <<"<link", " ", "href=", QUOTE, "/>">>],
        [tag |-> "entry",
         content |-> <<"<link", " ", "href=">> \o Post(doc, 1)
                     \o <<QUOTE, " ", "href=">> \o Post(doc, 2)
                     \o <<QUOTE, "/>", "<updated>", "u", "</updated>",
                          "<published>", "p", "</published>">>] >>]

\* <item> elements in a document that names no feed element
BareItems(doc) ==
  [head |-> <<"<?xml">>, blocks |-> <<ItemBlock(doc, 1), ItemBlock(doc, 2)>>]

LinkTag(type, href) ==
  [tag |-> "link",
   content |-> <<"<link", " ", "rel=alternate", " ", "type=", type, QUOTE, " ",
                 "href=">> \o href \o <<QUOTE, ">">>]

Html(links) == [head |-> <<"\n", "<!DOCTYPE html>", "<html">>, blocks |-> links]

Home == A \o <<"/">>

Blog == A \o <<"/", "blog", "/">>

F1 == A \o commonPaths[1]

F2 == A \o commonPaths[6]

F3 == B \o <<"/", "feed", ".xml">>

F4 == Blog \o <<"feed", ".xml">>

PageOptions ==
  { NetErr, Http("500"), Timeout,
    Ok(Rss(1, 1)), Ok(OddRss(1)), Ok(Atom(1, 2)), Ok(Urlset(1, <<1>>)),
    Ok(Html(<<>>)),
    Ok(Html(<< LinkTag("application/rss+xml", F3),
               LinkTag("text/css", <<"style", ".css">>),
               LinkTag("application/atom+xml", <<"feed", ".xml">>),
               LinkTag("text/xml", <<"http", "://", " ">>),
               [tag |-> "link",
                content |-> <<"<link", " ", "type=", "application/xml", QUOTE, ">">>] >>)) }

F1Options ==
  {Http("404"), HtmlOk} \cup {Ok(Rss(2, n)) : n \in 0..MaxItems}

F2Options ==
  {Timeout, Ok(OddRss(3)), Ok(MixedFeed(3))}
  \cup {Ok(Atom(3, n)) : n \in 1..MaxItems}

F3Options ==
  {NetErr, Ok(Rss(4, 0)), Ok(Rss(4, 1)), Ok(Rss(4, MaxItems)), Ok(BareItems(4))}

FeedWebs ==
  { (Home :> p) @@ (Blog :> p) @@ (F1 :> f1) @@ (F2 :> f2) @@ (F3 :> f3)
    @@ (F4 :> f2) :
    p \in PageOptions, f1 \in F1Options, f2 \in F2Options, f3 \in F3Options }

FeedRequests == {Str(<<"a.com">>), Str(Blog), Str(<<" ">> \o Blog)}

----------------------------------------------------------------------------
(* Specifications *)

InitRest ==
  /\ pc = "start"
  /\ fetchLog = <<>>
  /\ candidates = <<>>
  /\ idx = 0
  /\ allUrls = <<>>
  /\ discoveredSitemaps = <<>>
  /\ primarySitemapUrl = <<>>
  /\ childSitemaps = <<>>
  /\ childPending = {}
  /\ childResults = <<>>
  /\ feedItems = <<>>
  /\ workingFeedUrl = <<>>
  /\ validFeeds = <<>>
  /\ parsedUrl = InvalidUrl
  /\ mergeLog = <<>>
  /\ response = NoResponse
  /\ keywordData = <<>>
  /\ memoLog = <<>>

InitSitemap ==
  /\ handler = "sitemap"
  /\ \/ req \in SitemapRequests /\ web \in SitemapWebs
     \/ req \in BadRequests /\ web = OpenWeb
  /\ InitRest

InitFeed ==
  /\ handler = "feed"
  /\ \/ req \in FeedRequests /\ web \in FeedWebs
     \/ req \in BadRequests /\ web = OpenWeb
  /\ InitRest

Init == InitSitemap \/ InitFeed

Next == SmNext \/ FdNext

Spec == Init /\ [][Next]_vars

\* a handler that has not returned awaits a fetch or a batch of fetches
Awaiting == pc # "done"

\* every fetch carries AbortSignal.timeout (extract/route.ts:148, 198;
\* sitemap/route.ts:77, 148), so every await settles and the handler takes
\* its next step.  A step of Next is possible exactly while the handler
\* awaits, so this is WF_vars(Next), written with the state predicate that
\* ENABLED <<Next>>_vars equals.
Fairness == []<>(~Awaiting) \/ []<><<Next>>_vars

FairSpec == Spec /\ Fairness

\* the pages a..b in order
Range(a, b) == [k \in 1..(b - a + 1) |-> a + k - 1]

\* the pages 1..n-1 and the first page once more
Repeating(n) == [k \in 1..n |-> IF k = n THEN 1 ELSE k]

NoRobots == Robots :> Http("404")

\* a <url> entry that has a <loc> only
LocBlock(i) ==
  [tag |-> "url", content |-> <<"<loc>">> \o Page(i) \o <<"</loc>">>]

\* <urlset> listing the given pages by loc alone
LongUrlset(pages) ==
  [head |-> <<"<urlset">>, blocks |-> [k \in 1..Len(pages) |-> LocBlock(pages[k])]]

\* <sitemapindex> of the given children that also lists pages itself
LongIndex(children, pages) ==
  [head |-> <<"<sitemapindex">>,
   blocks |-> [k \in 1..Len(children) |-> SitemapBlock(children[k])]
              \o LongUrlset(pages).blocks]

TwoChildren == Ok(LongIndex(<<Child(1), Child(2)>>, <<>>))

\* networks whose sitemaps hold about MAX_URLS entries
CapWebs ==
  { NoRobots @@ (Std(1) :> TwoChildren)
      @@ (Child(1) :> Ok(LongUrlset(Repeating(MAX_URLS))))
      @@ (Child(2) :> Ok(LongUrlset(Range(MAX_URLS, MAX_URLS + 1)))),
    NoRobots @@ (Std(1) :> Ok(LongIndex(<<Child(1)>>, Range(1, MAX_URLS))))
      @@ (Child(1) :> Ok(LongUrlset(Range(MAX_URLS + 1, MAX_URLS + 1)))),
    NoRobots @@ (Std(1) :> TwoChildren)
      @@ (Child(1) :> Ok(LongUrlset(Range(1, MAX_URLS - 1))))
      @@ (Child(2) :> Ok(LongUrlset(Range(MAX_URLS - 1, MAX_URLS + 2)))),
    NoRobots @@ (Std(1) :> Ok(LongUrlset(Range(1, MAX_URLS + 1)))),
    NoRobots @@ (Std(1) :> TwoChildren) @@ (Child(1) :> Timeout)
      @@ (Child(2) :> Ok(LongUrlset(Range(1, MAX_URLS + 1)))) }

\* networks of small sitemaps without a robots.txt
PlainWebs ==
  { NoRobots @@ (Std(1) :> s1) @@ (Child(1) :> c1) @@ (Child(2) :> c2) :
    s1 \in Std1Options, c1 \in Child1Options, c2 \in Child2Options }

\* one reference more than MAX_CHILD_SITEMAPS: the first and the last are
\* absolute URLs, the others are relative paths
ManyRefs ==
  [k \in 1..(MAX_CHILD_SITEMAPS + 1) |->
     IF k = 1 THEN Child(1)
     ELSE IF k = MAX_CHILD_SITEMAPS + 1 THEN Child(2)
     ELSE <<"part", ToString(k), ".xml">>]

\* networks whose sitemap index lists more children than are fetched
WideWebs ==
  { NoRobots @@ (Std(1) :> Ok(LongIndex(ManyRefs, <<>>))) @@ (Child(1) :> c1)
      @@ (Child(2) :> Ok(Urlset(5, <<2>>))) :
    c1 \in Child1Options }

InitCap ==
  /\ handler = "sitemap"
  /\ req = Str(<<"a.com">>)
  /\ web \in CapWebs \cup PlainWebs \cup WideWebs
  /\ InitRest

SpecCap == InitCap /\ [][SmNext]_vars

\* greatest number of urls of a result whose keywords are computed
MaxKwUrls == 3

\* locs with slugs: two spellings of one phrase, a small word inside a
\* phrase, structural segments only, a double extension, a relative loc
KwLoc(k) ==
  IF k = 1 THEN A \o <<"/", "blog", "/", "best", "-", "wall", "-", "heater", ".html">>
  ELSE IF k = 2 THEN A \o <<"/", "Best", "_", "Wall", "-", "heater", "/", "page", "/", "2">>
  ELSE IF k = 3 THEN A \o <<"/", "guide", "-", "TO", "-", "tea", "/">>
  ELSE IF k = 4 THEN A \o <<"/", "Blog", "/", "post">>
  ELSE IF k = 5 THEN A \o <<"/", "the", "-", "end", ".tar", ".gz">>
  ELSE <<"part", "/", "a", "-", "b">>

\* the selections of up to MaxKwUrls different locs, in every order
KwInputs ==
  UNION {{f \in [1..n -> 1..6] : \A i, j \in 1..n : f[i] = f[j] => i = j} :
           n \in 0..MaxKwUrls}

KwDoc(f) ==
  [head |-> <<"<urlset">>,
   blocks |-> [k \in 1..Len(f) |->
                 [tag |-> "url",
                  content |-> <<"<loc>">> \o KwLoc(f[k]) \o <<"</loc>">>]]]

\* the component holds the result of a finished sitemap request
InitKeywords ==
  /\ handler = "sitemap"
  /\ req = Str(<<"a.com">>)
  /\ \E f \in KwInputs :
       /\ web = (NoRobots @@ (Std(1) :> Ok(KwDoc(f))))
       /\ response = SitemapResponse(parseSitemapXml(KwDoc(f)).urls,
                                     <<Std(1)>>, Std(1))
  /\ pc = "done"
  /\ fetchLog = <<>>
  /\ candidates = <<>>
  /\ idx = 0
  /\ allUrls = <<>>
  /\ discoveredSitemaps = <<>>
  /\ primarySitemapUrl = <<>>
  /\ childSitemaps = <<>>
  /\ childPending = {}
  /\ childResults = <<>>
  /\ feedItems = <<>>
  /\ workingFeedUrl = <<>>
  /\ validFeeds = <<>>
  /\ parsedUrl = InvalidUrl
  /\ mergeLog = <<>>
  /\ keywordData = <<>>
  /\ memoLog = <<>>

KwNext == KwMemo \/ KwSetResult

SpecKeywords == InitKeywords /\ [][KwNext]_vars

----------------------------------------------------------------------------
(* Properties *)

Done == pc = "done"

Succeeded == Done /\ response.status = 200

\* the url of the request is missing, not a string, empty or unparseable
MalformedUrl ==
  \/ req.type # "string"
  \/ req.str = <<>>
  \/ ~ParseUrl(NormalizeSeed(req.str)).ok

YieldOf(r) ==
  IF r.status = "ok" /\ IsValidFeed(r.body) THEN parseRssFeed(r.body) ELSE <<>>

Yield(u) == YieldOf(Fetch(u))

\* candidate k yields strictly more items than every other candidate
Leads(k) ==
  \A j \in 1..Len(candidates) :
    j # k => Len(Yield(candidates[j])) < Len(Yield(candidates[k]))

Discovered == handler = "feed" /\ Succeeded /\ response.source = <<"discovery">>

\* C2: when discovery ends and one candidate yields strictly more items
\* than every other, feedUrl is that candidate and items are its items,
\* wherever it stands in the try order and whatever the others return.
C2_RichestFeedWins ==
  Discovered =>
    \A k \in 1..Len(candidates) :
      Leads(k) => /\ response.feedUrl = candidates[k]
                  /\ response.items = Yield(candidates[k])

C2_Witness ==
  /\ Discovered
  /\ \E k \in 2..(Len(candidates) - 1) :
       /\ Leads(k)
       /\ \E j \in 1..(k - 1) : Len(Yield(candidates[j])) > 0
       /\ \E j \in (k + 1)..Len(candidates) : Len(Yield(candidates[j])) > 0
       /\ response.feedUrl = candidates[k]

SitemapDone == handler = "sitemap" /\ Done

SitemapSucceeded == handler = "sitemap" /\ Succeeded

LocsOf(urls) == {urls[i].loc : i \in 1..Len(urls)}

\* what a fetch of url offers the handler: the parse of a usable document
Offered(url) == parseSitemapXml(fetchXml(url).text)

\* the loc values of a parsed document and of the children it lists
LocsUnder(parsed) ==
  LocsOf(parsed.urls)
  \cup UNION {LocsOf(Offered(parsed.sitemapIndexUrls[i]).urls) :
                i \in 1..Len(parsed.sitemapIndexUrls)}

\* C3: whenever the sitemap index the handler chose and its child sitemaps
\* together hold more than 5000 unique loc values, totalUrls is exactly
\* 5000.
C3_CapExact ==
  (SitemapDone /\ Truthy(primarySitemapUrl)
   /\ Cardinality(LocsUnder(Offered(primarySitemapUrl))) > MAX_URLS)
  => response.totalUrls = MAX_URLS

\* C4: urls never has more than 5000 entries, and once 5000 entries are
\* accumulated no child result is merged and no candidate is fetched.
C4_CapStops ==
  /\ SitemapSucceeded => Len(response.urls) <= MAX_URLS
  /\ \A k \in 1..Len(mergeLog) : mergeLog[k] < MAX_URLS
  /\ \A k \in 1..Len(fetchLog) :
       fetchLog[k].kind = "candidate" => fetchLog[k].acc < MAX_URLS

\* the indices of the entries that are the first with their loc
FirstOccurrences(urls) ==
  {i \in 1..Len(urls) : \A j \in 1..(i - 1) : urls[j].loc # urls[i].loc}

PlaceIn(S, i) == Cardinality({j \in S : j <= i})

KeptInOrder(kept, urls, first) ==
  /\ Len(kept) = IF Cardinality(first) > MAX_URLS THEN MAX_URLS
                 ELSE Cardinality(first)
  /\ \A i \in first :
       PlaceIn(first, i) <= MAX_URLS => kept[PlaceIn(first, i)] = urls[i]

\* C5: no two entries of urls have the same loc; of the accumulated entries
\* with one loc the first is the one kept, and the kept entries stand in
\* the order of accumulation.  (allUrls holds the accumulation.)
C5_FirstOccurrenceKept ==
  SitemapSucceeded =>
    /\ \A a, b \in 1..Len(response.urls) :
         a # b => response.urls[a].loc # response.urls[b].loc
    /\ KeptInOrder(response.urls, allUrls, FirstOccurrences(allUrls))

C5_Witness ==
  /\ SitemapSucceeded
  /\ Len(response.urls) >= 2
  /\ \E i, j, k \in 1..Len(allUrls) :
       /\ i < j /\ j < k
       /\ allUrls[i].loc = allUrls[j].loc /\ allUrls[i] # allUrls[j]
       /\ allUrls[k].loc # allUrls[i].loc
       /\ response.urls[1] = allUrls[i] /\ response.urls[2] = allUrls[k]

\* C6: no response holds a feed item with an empty link or a sitemap entry
\* with an empty loc.
C6_NoEmptyIdentifier ==
  Succeeded =>
    /\ \A i \in 1..Len(response.items) : response.items[i].link # <<>>
    /\ \A i \in 1..Len(response.urls) : response.urls[i].loc # <<>>

Fetched(u) == \E k \in 1..Len(fetchLog) : fetchLog[k].url = u

FetchedSitemap(u) ==
  Fetched(u) /\ Fetch(u).status = "ok" /\ LooksLikeSitemap(Fetch(u).body)

FetchedFeed(u) ==
  Fetched(u) /\ Fetch(u).status = "ok" /\ IsValidFeed(Fetch(u).body)

FetchedDirect(u) ==
  /\ Fetched(u) /\ Fetch(u).status = "ok"
  /\ StartsLikeFeed(trimStart(Opening(Fetch(u).body)))

\* C7: every URL of discoveredSitemaps and of feedsFound was fetched in
\* this request with a 2xx response whose body passed the shape test of its
\* pipeline.
C7_OnlyValidatedListed ==
  /\ \A i \in 1..Len(discoveredSitemaps) : FetchedSitemap(discoveredSitemaps[i])
  /\ \A i \in 1..Len(validFeeds) : FetchedFeed(validFeeds[i])
  /\ Succeeded =>
       /\ \A i \in 1..Len(response.discoveredSitemaps) :
            FetchedSitemap(response.discoveredSitemaps[i])
       /\ \A i \in 1..Len(response.feedsFound) :
            IF response.source = <<"direct">>
            THEN FetchedDirect(response.feedsFound[i])
            ELSE FetchedFeed(response.feedsFound[i])

C7_Witness ==
  /\ SitemapSucceeded
  /\ Len(response.discoveredSitemaps) >= 2
  /\ \E k \in 1..Len(fetchLog) : Fetch(fetchLog[k].url) = HtmlOk
  /\ \E k \in 1..Len(fetchLog) : Fetch(fetchLog[k].url) = Timeout
  /\ \A k \in 1..Len(fetchLog) :
       Fetch(fetchLog[k].url) \in {HtmlOk, Timeout, Http("404"), Http("500")}
       => \A i \in 1..Len(response.discoveredSitemaps) :
            response.discoveredSitemaps[i] # fetchLog[k].url

\* the seed page was fetched and its body starts like a feed
SeedIsFeed ==
  /\ handler = "feed" /\ parsedUrl.ok
  /\ Fetch(parsedUrl.href).status = "ok"
  /\ StartsLikeFeed(trimStart(Opening(Fetch(parsedUrl.href).body)))

\* C8: when the body of the seed page, leading white space aside, starts
\* with <rss, <?xml or <feed, the response has source "direct", feedUrl the
\* seed URL and feedsFound the seed URL alone; no candidate list is made and
\* no candidate is fetched.
C8_DirectFeed ==
  SeedIsFeed =>
    /\ candidates = <<>>
    /\ \A k \in 1..Len(fetchLog) : fetchLog[k].kind = "seed"
    /\ Len(fetchLog) <= 1
    /\ Done => /\ response.status = 200
               /\ response.source = <<"direct">>
               /\ response.feedUrl = parsedUrl.href
               /\ response.feedsFound = <<parsedUrl.href>>

C8_Witness ==
  /\ SeedIsFeed /\ Done
  /\ Fetch(parsedUrl.href).body.head = <<" ", "<rss">>
  /\ response.source = <<"direct">>
  /\ Len(response.items) > 0

\* the non-empty values of the Sitemap: lines of a text
DeclaredLines(t) ==
  {trim(SubSeq(t, p + 1, LineEnd(t, p))) :
     p \in {q \in 1..Len(t) : IsDirective(t, q)}} \ {<<>>}

RobotsDeclared(r) ==
  IF r.status = "ok" THEN DeclaredLines(r.body.head) ELSE {}

ConventionalNames(u) ==
  {u.origin \o standardLocations[i] : i \in 1..Len(standardLocations)}

AttemptedBefore(d, k) ==
  \E j \in 1..(k - 1) : fetchLog[j].kind = "candidate" /\ fetchLog[j].url = d

OrderedAfter(declared, names) ==
  \A k \in 1..Len(fetchLog) :
    (fetchLog[k].kind = "candidate" /\ fetchLog[k].url \in names \ declared)
    => \A d \in declared : AttemptedBefore(d, k)

\* C9: no conventional sitemap filename that robots.txt does not declare is
\* fetched before every URL declared by a Sitemap: line of a successfully
\* fetched robots.txt has been attempted.
C9_DeclaredFirst ==
  (handler = "sitemap" /\ parsedUrl.ok) =>
    OrderedAfter(RobotsDeclared(Fetch(RobotsUrl(parsedUrl))),
                 ConventionalNames(parsedUrl))

\* C10: a top-level candidate is fetched only while the aggregate is empty:
\* once a candidate and its children have left at least one URL, no later
\* candidate is fetched.
C10_FirstProductiveWins ==
  \A k \in 1..Len(fetchLog) :
    fetchLog[k].kind = "candidate" => fetchLog[k].acc = 0

C10_Witness ==
  /\ SitemapSucceeded
  /\ Len(allUrls) > 0
  /\ 1 < idx /\ idx < Len(candidates)
  /\ Len(response.discoveredSitemaps) >= 2
  /\ fetchLog[Len(fetchLog)].url = candidates[idx]
  /\ Cardinality({k \in 1..Len(fetchLog) : fetchLog[k].kind = "candidate"}) = idx

\* The seed was accepted and, in the feed handler, the seed page was fetched.
SeedServed ==
  /\ Done
  /\ parsedUrl.ok
  /\ (handler = "feed" => Fetch(parsedUrl.href).status = "ok")

\* A feed candidate whose fetch succeeds with a body of feed shape.
IsLive(u) == Fetch(u).status = "ok" /\ IsValidFeed(Fetch(u).body)

\* A sitemap candidate or child whose fetch gives a usable document.
IsUsable(u) == fetchXml(u).ok

InSeq(x, s) == \E k \in 1..Len(s) : s[k] = x

\* The candidates the sitemap loop has tried so far.
Tried == SubSeq(candidates, 1, MinOf({idx, Len(candidates)}))

\* Failures of other candidates cost a working feed candidate nothing.
FeedUnharmed ==
  (handler = "feed" /\ response.source = <<"discovery">>)
    => /\ response.feedsFound = SelectSeq(candidates, IsLive)
       /\ \A k \in 1..Len(candidates) :
            Len(Yield(candidates[k])) <= response.totalItems
       /\ (response.totalItems > 0
             => \E k \in 1..Len(candidates) :
                  response.items = Yield(candidates[k]))

\* No failure ends the sitemap loop: it ends on URLs or on the last candidate,
\* and every usable candidate it tried is listed.
SitemapUnharmed ==
  handler = "sitemap"
    => /\ (response.totalUrls = 0 => idx >= Len(candidates))
       /\ \A k \in 1..Len(Tried) :
            IsUsable(Tried[k]) => InSeq(Tried[k], response.discoveredSitemaps)

\* C11: once the seed URL is accepted (and, for feeds, the seed page fetched),
\* the request ends with HTTP 200 whatever the robots.txt, candidate and child
\* fetches did; a failing candidate only removes its own contribution.
C11_FailuresNonFatal ==
  SeedServed => /\ response.status = 200
                /\ FeedUnharmed
                /\ SitemapUnharmed

FailedOf(kind, status) ==
  \E k \in 1..Len(fetchLog) :
    /\ fetchLog[k].kind = kind
    /\ ~IsUsable(fetchLog[k].url)
    /\ Fetch(fetchLog[k].url).status = status

\* robots.txt missing, a child timing out, another child not a sitemap, and a
\* later candidate still delivering URLs.
C11_Witness ==
  /\ SitemapSucceeded
  /\ response.totalUrls > 0
  /\ Fetch(RobotsUrl(parsedUrl)).status # "ok"
  /\ FailedOf("child", "timeout")
  /\ (FailedOf("child", "ok") \/ FailedOf("child", "http"))

\* A success response that reports no item (feed) or no URL (sitemap).
ReportsNothing ==
  /\ Succeeded
  /\ IF handler = "feed" THEN response.totalItems = 0
                         ELSE response.totalUrls = 0

EmptyArrays ==
  IF handler = "feed" THEN response.items = <<>> ELSE response.urls = <<>>

\* C12: every success response that reports zero items (feed handler, direct
\* and discovery path) or zero URLs (sitemap handler) has empty result arrays
\* and carries a message field.
C12_EmptyExplained ==
  ReportsNothing => EmptyArrays /\ response.message # Absent

\* Discovery ended and no candidate yields an item.
NothingYielded ==
  /\ Discovered
  /\ \A k \in 1..Len(candidates) : Yield(candidates[k]) = <<>>

FoundButEmptyText == <<"Found feed URLs but could not extract items from them.">>

NoFeedsText == <<"No RSS/Atom feeds found on this page.">>

\* C13: on the discovery path, when no candidate yields an item, feedUrl is
\* null, items is empty, totalItems is 0, and the message is the "found feed
\* URLs" text exactly when feedsFound is non-empty and the "no feeds found"
\* text exactly when it is empty.
C13_EmptyDiscoveryMessage ==
  NothingYielded
    => /\ response.feedUrl = JsNull
       /\ response.items = <<>>
       /\ response.totalItems = 0
       /\ (response.message = FoundButEmptyText <=> response.feedsFound # <<>>)
       /\ (response.message = NoFeedsText <=> response.feedsFound = <<>>)

\* a candidate is a feed without items while the others fail
C13_Witness ==
  /\ NothingYielded
  /\ response.feedsFound # <<>>
  /\ \E k \in 1..Len(candidates) : Fetch(candidates[k]).status # "ok"

\* The feed handler issued the seed page fetch and that fetch times out,
\* fails in transport or is answered with a non-2xx status.
SeedPageFails ==
  /\ handler = "feed"
  /\ pc # "start"
  /\ parsedUrl.ok
  /\ Fetch(parsedUrl.href).status # "ok"

\* C14: when the seed page fetch of the feed handler times out, fails in
\* transport or returns non-2xx, the request ends with HTTP 422 whose error
\* embeds the HTTP status or the transport message, and no candidate is
\* generated or fetched.
C14_SeedFailureIs422 ==
  SeedPageFails
    => /\ candidates = <<>>
       /\ fetchLog = <<LogEntry(parsedUrl.href, "seed", 0)>>
       /\ (Done => /\ response.status = 422
                   /\ InSeq(Fetch(parsedUrl.href).code, response.error))

C14_Witness ==
  /\ SeedPageFails
  /\ Done
  /\ Fetch(parsedUrl.href).status = "http"
  /\ response.error = <<"Failed to fetch URL (HTTP ", "500", ")">>

\* the <url> entries of the first k of the given documents, concatenated
RECURSIVE ChildUrls(_, _)
ChildUrls(children, k) ==
  IF k = 0 THEN <<>>
  ELSE ChildUrls(children, k - 1) \o Offered(children[k]).urls

\* every listed child is fetched successfully and is a <urlset>, and no loc
\* occurs twice among the entries of the children
ChildrenServed(children) ==
  /\ \A i \in 1..Len(children) :
       IsUsable(children[i]) /\ Offered(children[i]).sitemapIndexUrls = <<>>
  /\ Cardinality(LocsOf(ChildUrls(children, Len(children))))
       = Len(ChildUrls(children, Len(children)))

\* The seed is a sitemap index that the handler fetched successfully and
\* that lists between 1 and 20 children, all served.
SeedIndexServed ==
  /\ SitemapSucceeded
  /\ parsedUrl.ok
  /\ \E k \in 1..Len(fetchLog) :
       fetchLog[k].url = parsedUrl.href /\ fetchLog[k].kind = "candidate"
  /\ IsUsable(parsedUrl.href)
  /\ Len(Offered(parsedUrl.href).sitemapIndexUrls) \in 1..MAX_CHILD_SITEMAPS
  /\ ChildrenServed(Offered(parsedUrl.href).sitemapIndexUrls)

SeedTotals(index) ==
  /\ response.totalUrls
       = Len(ChildUrls(index.sitemapIndexUrls, Len(index.sitemapIndexUrls)))
  /\ Len(response.discoveredSitemaps) = Len(index.sitemapIndexUrls) + 1

\* C15 as stated: for a seed sitemap index fetched successfully that lists
\* k <= 20 children, each fetched successfully and a <urlset>, with pairwise
\* distinct locs across the children, totalUrls is the sum of the children's
\* URL counts and discoveredSitemaps has length k + 1.
C15_IndexTotals_Original ==
  SeedIndexServed => SeedTotals(Offered(parsedUrl.href))

\* the seed is the first candidate whose fetch gives a usable document
SeedIsFirstUsable ==
  \A j \in 1..Len(candidates) :
    IsUsable(candidates[j])
      => \E i \in 1..j : candidates[i] = parsedUrl.href

\* the index has no <url> entries of its own and its children hold between
\* one and MAX_URLS entries together
PlainIndex(index) ==
  /\ index.urls = <<>>
  /\ Len(ChildUrls(index.sitemapIndexUrls, Len(index.sitemapIndexUrls)))
       \in 1..MAX_URLS

\* C15, amended: the totals hold when, in addition, no candidate tried before
\* the seed index gives a usable document, the index has no <url> entries of
\* its own, and the children hold between 1 and 5000 entries together.
C15_IndexTotals ==
  (SeedIndexServed /\ SeedIsFirstUsable /\ PlainIndex(Offered(parsedUrl.href)))
    => SeedTotals(Offered(parsedUrl.href))

C15_Witness ==
  /\ SeedIndexServed /\ SeedIsFirstUsable /\ PlainIndex(Offered(parsedUrl.href))
  /\ Len(Offered(parsedUrl.href).sitemapIndexUrls) = 2
  /\ response.totalUrls = 2
  /\ Len(response.discoveredSitemaps) = 3

\* The url of the request is a non-empty string that does not begin with a
\* scheme followed by "://", and validation has run.
SchemeLess ==
  /\ req.json /\ req.type = "string" /\ req.str # <<>>
  /\ SchemeOf(req.str) = <<>>
  /\ pc # "start"

WithHttps(str) == ParseUrl(<<"http", "s", "://">> \o str)

\* C16: an input without a scheme, a host name beginning with "http"
\* included, is parsed as https:// followed by the input; a client error is
\* returned only if that string does not parse.
C16_SchemeLessGetsHttps ==
  SchemeLess
    => IF WithHttps(req.str).ok
       THEN parsedUrl = WithHttps(req.str) /\ response.status # 400
       ELSE Done /\ response.status = 400

\* children of the last index appear in disc in the order the index lists them
InIndexOrder(disc, children) ==
  \A a, b \in 1..Len(disc) :
    \A i, j \in 1..Len(children) :
      (a < b /\ disc[a] = children[i] /\ disc[b] = children[j]) => i <= j

\* C17: child tasks write only into their own result slot, so the response,
\* the order of discoveredSitemaps included, is the same for every order in
\* which the child fetches complete: the children are listed in the order of
\* the index.
C17_CompletionOrderIrrelevant ==
  SitemapDone => InIndexOrder(response.discoveredSitemaps, childSitemaps)

\* what the first k of the given children contribute: the <url> entries of
\* each child fetched successfully, nothing for a child whose fetch failed
RECURSIVE Contributions(_, _)
Contributions(children, k) ==
  IF k = 0 THEN <<>>
  ELSE Contributions(children, k - 1)
       \o (IF IsUsable(children[k]) THEN Offered(children[k]).urls ELSE <<>>)

\* the first min(n, MAX_CHILD_SITEMAPS) of the n references, in document order
FirstRefs(refs) == SubSeq(refs, 1, MinOf({Len(refs), MAX_CHILD_SITEMAPS}))

\* The step that parses an index issues one fetch for each of the first
\* min(n, 20) references, in document order, all in that step, and no child
\* fetch is issued while the batch is awaited.
BatchIssued ==
  /\ (pc = "candidate" /\ pc' = "children")
       => /\ childSitemaps' = FirstRefs(Offered(candidates[idx]).sitemapIndexUrls)
          /\ fetchLog' = fetchLog \o
               [i \in 1..Len(childSitemaps') |->
                  LogEntry(childSitemaps'[i], "child", Len(allUrls'))]
  /\ (pc = "children" /\ pc' = "children") => fetchLog' = fetchLog

\* the step that ends the batch
BatchEnds == pc = "children" /\ pc' # "children"

\* C18 as stated: an index with n child references has exactly min(n, 20)
\* child fetches issued, for its first min(n, 20) references in document
\* order, as one batch; whichever children fail, what is merged from each
\* successful child is exactly its parsed <url> entries and a failed child
\* contributes nothing.
C18_BatchMerged_Original ==
  [][/\ BatchIssued
     /\ BatchEnds
          => allUrls' = allUrls \o Contributions(childSitemaps, Len(childSitemaps))
    ]_vars

\* the merge takes the children in document order and ends after the first
\* child with which the accumulated count is MAX_URLS or more
MergedUpTo(m) ==
  /\ allUrls' = allUrls \o Contributions(childSitemaps, m)
  /\ m = 0 => Len(childSitemaps) = 0
  /\ m < Len(childSitemaps) => Len(allUrls') >= MAX_URLS
  /\ \A j \in 1..(m - 1) :
       Len(allUrls \o Contributions(childSitemaps, j)) < MAX_URLS

\* C18, amended: the batch is issued as stated; the children are merged in
\* document order, each successful child contributing exactly its parsed
\* <url> entries and a failed child nothing, up to and including the first
\* child after whose merge the accumulated count is 5000 or more; later
\* children are not merged.
C18_BatchMerged ==
  [][/\ BatchIssued
     /\ BatchEnds => \E m \in 0..Len(childSitemaps) : MergedUpTo(m)
    ]_vars

\* An index with more than 20 references: 20 child fetches were issued, the
\* 21st reference was not fetched, one child delivered and the others failed.
C18_Witness ==
  /\ SitemapSucceeded
  /\ Len(Offered(candidates[1]).sitemapIndexUrls) > MAX_CHILD_SITEMAPS
  /\ Cardinality({k \in 1..Len(fetchLog) : fetchLog[k].kind = "child"})
       = MAX_CHILD_SITEMAPS
  /\ \A k \in 1..Len(fetchLog) :
       fetchLog[k].url # Offered(candidates[1]).sitemapIndexUrls[MAX_CHILD_SITEMAPS + 1]
  /\ allUrls = Offered(childSitemaps[1]).urls
  /\ Len(allUrls) > 0

IsFeedFetch(e) == e.kind = "feed"

\* the URLs of the candidate fetches issued so far, in the order of issue
FeedFetches(log) ==
  [k \in 1..Len(SelectSeq(log, IsFeedFetch)) |-> SelectSeq(log, IsFeedFetch)[k].url]

NoRepeat(s) == \A i, j \in 1..Len(s) : s[i] = s[j] => i = j

\* C19: on the discovery path every URL of the deduplicated candidate list is
\* fetched exactly once, in list order, one at a time (the fetch of candidate
\* idx is issued when the fetches before it have settled), and the loop goes
\* through the whole list whatever the earlier candidates returned.
C19_EveryCandidateOnce ==
  (handler = "feed" /\ pc \in {"feed", "done"})
    => /\ NoRepeat(candidates)
       /\ FeedFetches(fetchLog) = SubSeq(candidates, 1, idx)
       /\ (pc = "done" => idx = Len(candidates))

\* the first candidate already delivers items, a later one fails, the list
\* lost a duplicate, and all were fetched
C19_Witness ==
  /\ Discovered
  /\ Len(candidates) >= 3
  /\ Yield(candidates[1]) # <<>>
  /\ Fetch(candidates[2]).status # "ok"
  /\ ~NoRepeat(Declared(SelectSeq(Fetch(parsedUrl.href).body.blocks,
                                  FeedLinkWithHref), parsedUrl)
                 \o Guessed(parsedUrl))
  /\ FeedFetches(fetchLog) = candidates

\* the fetch of url does not give the handler a document it can use
FetchFails(url) ==
  IF handler = "feed" THEN ~IsLive(url) ELSE ~IsUsable(url)

\* C20: within one request a URL whose fetch has failed is not fetched again,
\* neither as a top-level candidate nor as a child of a later index.
C20_FailedNotRefetched ==
  \A i, j \in 1..Len(fetchLog) :
    (i < j /\ fetchLog[i].url = fetchLog[j].url /\ fetchLog[i].kind # "seed")
      => ~FetchFails(fetchLog[i].url)

\* the sitemap handler took the seed for a sitemap
DirectSeed == handler = "sitemap" /\ parsedUrl.ok /\ LooksDirect(parsedUrl)

IsFirstCandidateFetch(k) ==
  /\ fetchLog[k].kind = "candidate"
  /\ \A j \in 1..(k - 1) : fetchLog[j].kind # "candidate"

DirectiveUrls(declared) == {declared[i] : i \in 1..Len(declared)}

SeedBeforeOthers(declared) ==
  \A k \in 1..Len(fetchLog) :
    (/\ fetchLog[k].kind = "candidate"
     /\ fetchLog[k].url # parsedUrl.href
     /\ fetchLog[k].url \notin declared)
      => AttemptedBefore(parsedUrl.href, k)

DirectChild(k) ==
  \E c \in 1..(k - 1) :
    /\ fetchLog[c].kind = "candidate"
    /\ IsUsable(fetchLog[c].url)
    /\ InSeq(fetchLog[k].url, FirstRefs(Offered(fetchLog[c].url).sitemapIndexUrls))

\* the <url> entries of the documents the handler fetched as candidate or child
FetchedLocs ==
  UNION {LocsOf(Offered(fetchLog[k].url).urls) :
           k \in {j \in 1..Len(fetchLog) :
                    fetchLog[j].kind \in {"candidate", "child"}}}

\* C22: every fetch of a sitemap request is the robots.txt fetch, a top-level
\* candidate, or a child that a fetched top-level candidate lists itself;
\* the sitemaps a child document lists are not fetched and add no URL.
C22_OneLevel ==
  handler = "sitemap"
    => /\ \A k \in 1..Len(fetchLog) :
            \/ k = 1 /\ fetchLog[k].kind = "robots"
                     /\ fetchLog[k].url = RobotsUrl(parsedUrl)
            \/ fetchLog[k].kind = "candidate" /\ InSeq(fetchLog[k].url, candidates)
            \/ fetchLog[k].kind = "child" /\ DirectChild(k)
       /\ LocsOf(allUrls) \subseteq FetchedLocs
       /\ (Done /\ response.status = 200)
            => LocsOf(response.urls) \subseteq FetchedLocs

\* a child that is itself an index was fetched; the sitemap it lists holds a
\* loc of its own and was not fetched
C22_Witness ==
  /\ SitemapSucceeded
  /\ \E k \in 1..Len(fetchLog) :
       /\ fetchLog[k].kind = "child"
       /\ IsUsable(fetchLog[k].url)
       /\ \E g \in 1..Len(Offered(fetchLog[k].url).sitemapIndexUrls) :
            /\ IsUsable(Offered(fetchLog[k].url).sitemapIndexUrls[g])
            /\ \A j \in 1..Len(fetchLog) :
                 fetchLog[j].url # Offered(fetchLog[k].url).sitemapIndexUrls[g]
            /\ ~(LocsOf(Offered(Offered(fetchLog[k].url).sitemapIndexUrls[g]).urls)
                   \subseteq LocsOf(response.urls))

\* the document has at least one <item> block
HasItemBlock(xml) == \E k \in 1..Len(xml.blocks) : IsItemBlock(xml.blocks[k])

\* the records of the <item> blocks of a document that have a link
ItemRecords(ib) == [i \in 1..Len(ib) |-> RssItem(ib[i].content)]

\* C23: parseRssFeed reads <entry> blocks only when the document has no
\* <item> block: from a document with an <item> block, even one without a
\* usable link, no record of an <entry> block is returned.
C23_EntriesOnlyWithoutItems ==
  (/\ handler = "feed" /\ Succeeded
   /\ response.feedUrl # JsNull
   /\ HasItemBlock(Fetch(response.feedUrl).body))
    => response.items
         = ItemRecords(SelectSeq(Fetch(response.feedUrl).body.blocks, ItemWithLink))

\* the path prefixes of the entries of urls whose loc parses and has a
\* non-empty path segment
Prefixes(urls) == {TopLevel(urls[i].loc) : i \in 1..Len(urls)} \ {<<>>}

\* the number of entries of urls under prefix k
Tally(urls, k) == Cardinality({i \in 1..Len(urls) : TopLevel(urls[i].loc) = k})

\* the first entry of urls under prefix k
FirstSeen(urls, k) == MinOf({i \in 1..Len(urls) : TopLevel(urls[i].loc) = k})

\* prefix a is reported before prefix b
Ahead(urls, a, b) ==
  \/ Tally(urls, a) > Tally(urls, b)
  \/ (Tally(urls, a) = Tally(urls, b) /\ FirstSeen(urls, a) < FirstSeen(urls, b))

CategoriesRight(cats, urls) ==
  /\ Len(cats) = MinOf({30, Cardinality(Prefixes(urls))})
  /\ \A r \in 1..Len(cats) :
       /\ cats[r][1] \in Prefixes(urls)
       /\ cats[r][2] = Tally(urls, cats[r][1])
  /\ \A r, q \in 1..Len(cats) : r < q => Ahead(urls, cats[r][1], cats[q][1])
  /\ \A k \in Prefixes(urls) :
       (\A r \in 1..Len(cats) : cats[r][1] # k)
         => \A r \in 1..Len(cats) : Ahead(urls, cats[r][1], k)

\* C24: the categories of a sitemap response are the first 30 of the pairs
\* (path prefix, count) in descending order of count, ties in order of first
\* appearance in urls; a count is the number of entries of the returned urls
\* under the prefix; entries whose loc does not parse or has an empty path
\* are counted nowhere.
C24_CategoriesTop30 ==
  SitemapSucceeded => CategoriesRight(response.categories, response.urls)

\* more than 30 prefixes, the most frequent one appearing last, ties among
\* the others, and entries that are counted nowhere
C24_Witness ==
  /\ SitemapSucceeded
  /\ Cardinality(Prefixes(response.urls)) > 30
  /\ Len(response.categories) = 30
  /\ response.categories[1] = <<TopLevel(response.urls[31].loc), 2>>
  /\ response.categories[2] = <<TopLevel(response.urls[1].loc), 1>>
  /\ response.categories[30] = <<TopLevel(response.urls[29].loc), 1>>
  /\ \E i \in 1..Len(response.urls) : TopLevel(response.urls[i].loc) = <<>>

\* C25 as stated: two runs of the keyword tally over the same set of URLs
\* give the same sorted sequence of (phrase, count), ties included, whatever
\* the order in which the URLs are presented.
C25_KeywordsOrderFree_Original ==
  \A i, j \in 1..Len(memoLog) :
    LocsOf(memoLog[i].urls) = LocsOf(memoLog[j].urls)
      => memoLog[i].sorted = memoLog[j].sorted

\* the first entry of urls that yields phrase ph
FirstYield(urls, ph) ==
  MinOf({i \in 1..Len(urls) : extractKeywordPhrase(urls[i].loc) = ph})

\* the number of entries of urls that yield phrase ph
YieldCount(urls, ph) ==
  Cardinality({i \in 1..Len(urls) : extractKeywordPhrase(urls[i].loc) = ph})

\* sorted holds each phrase with its count, greater counts first, equal
\* counts in the order in which the phrases first occur in urls
TalliedInOrder(sorted, urls) ==
  /\ \A r \in 1..Len(sorted) : sorted[r][2] = YieldCount(urls, sorted[r][1])
  /\ \A r, q \in 1..Len(sorted) :
       r < q
         => \/ sorted[r][2] > sorted[q][2]
            \/ /\ sorted[r][2] = sorted[q][2]
               /\ FirstYield(urls, sorted[r][1]) < FirstYield(urls, sorted[q][1])

PairsOf(sorted) == {sorted[r] : r \in 1..Len(sorted)}

\* C25, amended: two runs over the same URLs in the same order give the
\* same sequence; two runs over the same set of URLs give the same
\* (phrase, count) pairs; the sequence is in descending order of count and
\* phrases with equal counts stand in the order of their first occurrence
\* in the URLs as presented, so their relative order follows that order.
C25_KeywordsOrderFree ==
  /\ \A i \in 1..Len(memoLog) :
       TalliedInOrder(memoLog[i].sorted, memoLog[i].urls)
  /\ \A i, j \in 1..Len(memoLog) :
       /\ memoLog[i].urls = memoLog[j].urls
            => memoLog[i].sorted = memoLog[j].sorted
       /\ LocsOf(memoLog[i].urls) = LocsOf(memoLog[j].urls)
            => PairsOf(memoLog[i].sorted) = PairsOf(memoLog[j].sorted)

\* two runs over the same URLs in different orders: the same pairs in a
\* different sequence
C25_Witness ==
  /\ Len(memoLog) = 2
  /\ LocsOf(memoLog[1].urls) = LocsOf(memoLog[2].urls)
  /\ memoLog[1].urls # memoLog[2].urls
  /\ PairsOf(memoLog[1].sorted) = PairsOf(memoLog[2].sorted)
  /\ memoLog[1].sorted # memoLog[2].sorted
  /\ keywordData = memoLog[2].sorted

\* the candidates tried so far whose fetch gave a usable document
UsableTried == SelectSeq(Tried, IsUsable)

SitemapUrlRight ==
  /\ (response.sitemapUrl = JsNull) <=> (response.totalUrls = 0)
  /\ response.sitemapUrl # JsNull
       => /\ Len(response.discoveredSitemaps) > 0
          /\ response.sitemapUrl = response.discoveredSitemaps[1]
          /\ Len(UsableTried) > 0
          /\ response.sitemapUrl = UsableTried[1]

\* C26: in a sitemap result sitemapUrl is null exactly when totalUrls is 0;
\* otherwise it is the first element of discoveredSitemaps, the first
\* top-level candidate whose fetch gave a usable document, whether or not
\* that candidate contributed a URL.  In a feed result a feedUrl that is not
\* null is a member of feedsFound.
C26_PrimaryIsFirstUsable ==
  /\ SitemapSucceeded => SitemapUrlRight
  /\ (handler = "feed" /\ Succeeded /\ response.feedUrl # JsNull)
       => InSeq(response.feedUrl, response.feedsFound)

\* the first usable candidate lists nothing and every URL of the result
\* comes from a later candidate
C26_Witness ==
  /\ SitemapSucceeded
  /\ response.totalUrls > 0
  /\ Len(UsableTried) >= 2
  /\ response.sitemapUrl = UsableTried[1]
  /\ response.sitemapUrl # UsableTried[Len(UsableTried)]
  /\ Len(Offered(UsableTried[1]).urls) = 0
  /\ LocsOf(response.urls) \subseteq LocsUnder(Offered(UsableTried[Len(UsableTried)]))

\* the <url> entries of a candidate followed by those of the children it
\* lists, child after child in the order of the index
CandidateYield(c) ==
  IF IsUsable(c)
  THEN Offered(c).urls
       \o Contributions(FirstRefs(Offered(c).sitemapIndexUrls),
                        Len(FirstRefs(Offered(c).sitemapIndexUrls)))
  ELSE <<>>

RECURSIVE ListedOrder(_, _)
ListedOrder(cands, k) ==
  IF k = 0 THEN <<>>
  ELSE ListedOrder(cands, k - 1) \o CandidateYield(cands[k])

\* C27: the urls of a sitemap result are the <url> entries of the parent
\* document in document order, followed by the entries of each successful
\* child in the order in which the index lists the children, deduplicated
\* and truncated, whatever the order in which the child fetches completed.
C27_UrlsInListedOrder ==
  SitemapSucceeded
    => response.urls = TrimToMax(DedupByLoc(ListedOrder(Tried, Len(Tried))))

\* the position of x in s
FirstAt(x, s) == MinOf({k \in 1..Len(s) : s[k] = x})

\* two children that completed in the reverse of their listed order and
\* whose entries stand in the result in the listed order
C27_Witness ==
  /\ SitemapSucceeded
  /\ \E a, b \in 1..Len(childSitemaps) :
       /\ a < b
       /\ InSeq(childSitemaps[a], discoveredSitemaps)
       /\ InSeq(childSitemaps[b], discoveredSitemaps)
       /\ FirstAt(childSitemaps[b], discoveredSitemaps)
            < FirstAt(childSitemaps[a], discoveredSitemaps)
       /\ \E x \in 1..Len(response.urls), y \in 1..Len(response.urls) :
            /\ x < y
            /\ response.urls[x].loc \in LocsOf(Offered(childSitemaps[a]).urls)
            /\ response.urls[x].loc \notin LocsOf(Offered(childSitemaps[b]).urls)
            /\ response.urls[y].loc \in LocsOf(Offered(childSitemaps[b]).urls)
            /\ response.urls[y].loc \notin LocsOf(Offered(childSitemaps[a]).urls)

\* the greatest number of items a candidate yields
TopCount ==
  MaxOf({0} \cup {Len(Yield(candidates[k])) : k \in 1..Len(candidates)})

\* candidate k yields the greatest number of items and is the earliest to
\* do so
EarliestTop(k) ==
  /\ Len(Yield(candidates[k])) = TopCount
  /\ \A j \in 1..(k - 1) : Len(Yield(candidates[j])) < TopCount

TieBroken ==
  Discovered
    => /\ TopCount = 0 => response.feedUrl = JsNull
       /\ TopCount > 0
            => \E k \in 1..Len(candidates) :
                 /\ EarliestTop(k)
                 /\ response.feedUrl = candidates[k]
                 /\ response.items = Yield(candidates[k])

ReplacedByMore ==
  (handler = "feed" /\ workingFeedUrl' # workingFeedUrl)
    => Len(feedItems') > Len(feedItems)

\* C28: among the candidates with the greatest number of items the earliest
\* in the try order is feedUrl; the best feed is replaced only by a
\* candidate with strictly more items, so a valid candidate without items
\* never becomes feedUrl.
C28_EarliestOfTiesWins == [](TieBroken) /\ [][ReplacedByMore]_vars

\* a valid feed without items is tried first, then two candidates with the
\* same greatest number of items: the earlier of the two is feedUrl
C28_Witness ==
  /\ Discovered
  /\ TopCount > 0
  /\ \E k, m \in 1..Len(candidates) :
       /\ k < m
       /\ EarliestTop(k)
       /\ Len(Yield(candidates[m])) = TopCount
       /\ candidates[m] # candidates[k]
       /\ response.feedUrl = candidates[k]
       /\ \E j \in 1..(k - 1) :
            IsLive(candidates[j]) /\ Len(Yield(candidates[j])) = 0

\* the places of the Sitemap: lines of a text
DirectivePlaces(t) == {q \in 1..Len(t) : IsDirective(t, q)}

\* the trimmed values of the Sitemap: lines at the places S, in order of
\* appearance
RECURSIVE LineValues(_, _)
LineValues(t, S) ==
  IF S = {} THEN <<>>
  ELSE <<trim(SubSeq(t, MinOf(S) + 1, LineEnd(t, MinOf(S))))>>
       \o LineValues(t, S \ {MinOf(S)})

IsText(x) == x # <<>>

\* the URLs that the Sitemap: lines of robots.txt declare, line by line
DirectivesOf(r) ==
  IF r.status = "ok"
  THEN SelectSeq(LineValues(r.body.head, DirectivePlaces(r.body.head)), IsText)
  ELSE <<>>

SeveralDirectives(r) ==
  r.status = "ok" /\ Cardinality(DirectivePlaces(r.body.head)) >= 2

IsCandidateEntry(e) == e.kind = "candidate"

\* the top-level candidates fetched so far, in the order of their fetches
CandidateFetches ==
  [k \in 1..Len(SelectSeq(fetchLog, IsCandidateEntry)) |->
     SelectSeq(fetchLog, IsCandidateEntry)[k].url]

IsPrefix(xs, ys) ==
  Len(xs) <= Len(ys) /\ \A k \in 1..Len(xs) : xs[k] = ys[k]

\* C29: when robots.txt has several Sitemap: lines, the top-level candidates
\* are fetched in this order: the declared URLs from the last line to the
\* first, then the seed (when it is a candidate) and the conventional
\* filenames, each URL at its first position in that list only.
C29_DeclaredInReverse ==
  (handler = "sitemap" /\ parsedUrl.ok
   /\ SeveralDirectives(Fetch(RobotsUrl(parsedUrl))))
    => IsPrefix(CandidateFetches,
                Unique(Reverse(DirectivesOf(Fetch(RobotsUrl(parsedUrl))))
                       \o InitialCandidates(parsedUrl)))

\* two declared URLs fetched last line first, the first line's URL being a
\* conventional filename
C29_ReverseObserved ==
  /\ handler = "sitemap" /\ Done /\ parsedUrl.ok
  /\ Len(DirectivesOf(Fetch(RobotsUrl(parsedUrl)))) = 2
  /\ Len(CandidateFetches) >= 2
  /\ CandidateFetches[1] = DirectivesOf(Fetch(RobotsUrl(parsedUrl)))[2]
  /\ CandidateFetches[2] = DirectivesOf(Fetch(RobotsUrl(parsedUrl)))[1]
  /\ CandidateFetches[2] = parsedUrl.origin \o standardLocations[2]
  /\ \A k \in 3..Len(CandidateFetches) :
       CandidateFetches[k] # CandidateFetches[2]

\* the number of fetches issued stays within the bound of the handler
FetchBound ==
  /\ handler = "feed" => Len(fetchLog) <= 1 + Len(candidates)
  /\ handler = "sitemap"
       => Len(fetchLog) <= 1 + Len(candidates) * (1 + MAX_CHILD_SITEMAPS)

Responded == response.status # 0

\* the response is produced by the step that ends the request and is never
\* replaced
RespondsOnce ==
  /\ Responded => response' = response
  /\ Responded' => pc' = "done"

\* C30: with every fetch settling (completing or aborted by its timeout), a
\* feed or sitemap request eventually produces its response, produces it
\* once, and issues at most 1 + |candidates| fetches in the feed handler and
\* at most 1 + |candidates| * (1 + 20) in the sitemap handler.
C30_TerminatesBounded ==
  /\ <>Done
  /\ [](FetchBound /\ (Done <=> Responded))
  /\ [][RespondsOnce]_vars

TimedOut(kind) ==
  \E k \in 1..Len(fetchLog) :
    fetchLog[k].kind = kind /\ Fetch(fetchLog[k].url).status = "timeout"

\* a discovery that fetched the page and every candidate, one of which
\* timed out, and answered
C30_Witness ==
  /\ handler = "feed" /\ Done /\ response.status = 200
  /\ Len(candidates) > 1
  /\ Len(fetchLog) = 1 + Len(candidates)
  /\ TimedOut("feed")

====
